---- MODULE Spec2Model ----
(***************************************************************************)
(* mcp-capi: operator actions over Cluster API resources.                  *)
(*                                                                         *)
(* The program holds no state of its own: every tool handler is a short    *)
(* sequence of calls against the Kubernetes API server (the store).  The   *)
(* model keeps the store's objects, and for every caller the position of   *)
(* its request inside the handler, with one action per store call.         *)
(***************************************************************************)
EXTENDS Integers, Sequences, FiniteSets, TLC

VARIABLES
    store,   \* the API server: clusters, machines, control planes, machine deployments
    req,     \* per caller: the request in flight (arguments, position, locals, result)
    writes   \* number of writes the store has accepted so far

vars == <<store, req, writes>>

----------------------------------------------------------------------------
(* Bounds of the model *)

\* longest condition list of a cluster or machine
MaxConds == 2
\* number of Machine objects the store can hold
MaxMachines == 2
\* accepted writes after which no new request is started
MaxWrites == 2
\* seconds the clock can be ahead of Epoch when Remediate reads it
MaxClock == 1
\* longest condition list of a cluster whose verdict is read for its order
MaxOrderConds == 4

----------------------------------------------------------------------------
(* Names and values *)

Procs == {"a", "b"}

Absent == [absent |-> TRUE]
NoRef == [none |-> TRUE]

DefaultNs == "default"
ClusterNames == {"c1"}
MachineNames == {"m" \o ToString(i) : i \in 1..MaxMachines}
KcpNames == {"c1", "c1-control-plane"}
MdNames == {"md1", "md2"}
NodeNames == {"n1"}

PausedAnnotation == "cluster.x-k8s.io/paused"
ReadyCondition == "Ready"

\* annotations: every key maps to its value, or to NoValue when it is not set
NoValue == "<absent>"
AnnKeys == {PausedAnnotation, "owner"}
NoAnnotations == [k \in AnnKeys |-> NoValue]
ProviderLabel == "cluster.x-k8s.io/provider"
LabelKeys == {"env", ProviderLabel}
NoLabels == [k \in LabelKeys |-> NoValue]

\* the ControlPlaneRef of CreateCluster: APIVersion, Kind and Name, no namespace
KcpRef(name) == [kind |-> "KubeadmControlPlane", name |-> name, namespace |-> ""]
\* the same reference after another writer has filled in the namespace
DefaultedKcpRef(name) == [KcpRef(name) EXCEPT !.namespace = DefaultNs]
RemediateAnnotation == "cluster.x-k8s.io/remediate-machine"
MachineAnnKeys == {RemediateAnnotation, "owner"}
NoMachineAnnotations == [k \in MachineAnnKeys |-> NoValue]
\* what time.Now().Unix() can return
NowValues == {1700000000 + i : i \in 0..MaxClock}
MachineHealthCheckSucceededCondition == "HealthCheckSucceeded"

Cond(t, s, sev, msg) == [type |-> t, status |-> s, severity |-> sev, message |-> msg]

SeqsUpTo(S, n) == UNION {[1..k -> S] : k \in 0..n}

\* condition lists as the controllers keep them: one condition per type
CondLists(S, n) ==
    {cs \in SeqsUpTo(S, n) : \A i, j \in 1..Len(cs) : cs[i].type = cs[j].type => i = j}

----------------------------------------------------------------------------
(* Pure helpers taken from the code and the libraries it calls *)

\* conditions.IsTrue(obj, t): the first condition of type t has status True
IsTrueCondition(conds, t) ==
    LET idx == {i \in 1..Len(conds) : conds[i].type = t}
    IN  idx # {} /\ conds[CHOOSE i \in idx : \A j \in idx : i <= j].status = "True"

\* a DeleteMachine whose health check looks for the Ready condition instead
Mut_MachineIsHealthy(machine) ==
    \E i \in 1..Len(machine.conditions) :
        /\ machine.conditions[i].type = ReadyCondition
        /\ machine.conditions[i].status = "True"

\* the loop of DeleteMachine: some condition HealthCheckSucceeded with status True
MachineIsHealthy(machine) ==
    \E i \in 1..Len(machine.conditions) :
        /\ machine.conditions[i].type = MachineHealthCheckSucceededCondition
        /\ machine.conditions[i].status = "True"

\* util.IsControlPlaneMachine: the control-plane label is present
IsControlPlaneMachine(machine) == machine.controlPlane

\* the Ready loop of the handlers and of GetClusterHealth
MachineHasReadyTrue(machine) ==
    \E i \in 1..Len(machine.conditions) :
        /\ machine.conditions[i].type = "Ready"
        /\ machine.conditions[i].status = "True"

\* the switch of GetProviderForCluster
ProviderForKind(kind) ==
    CASE kind = "AWSCluster" -> "aws"
      [] kind = "AzureCluster" -> "azure"
      [] kind = "GCPCluster" -> "gcp"
      [] kind = "VSphereCluster" -> "vsphere"
      [] OTHER -> "unknown"

----------------------------------------------------------------------------
(* The store: get / list / update / delete of the API server *)

\* get(namespace, name): the object, or Absent (NotFound)
StoreGet(s, kind, ns, name) ==
    IF ns = DefaultNs /\ name \in DOMAIN s[kind] THEN s[kind][name] ELSE Absent

\* list(namespace, label cluster-name = clusterName): names of the matching machines
StoreListMachines(s, ns, clusterName) ==
    {m \in DOMAIN s.machines :
        /\ ns = DefaultNs
        /\ s.machines[m] # Absent
        /\ (clusterName # "" => s.machines[m].cluster = clusterName)}

\* update(object): NotFound when the object is gone, Conflict when the revision
\* the caller read is not the stored one
UpdateOutcome(s, kind, name, obj) ==
    IF StoreGet(s, kind, DefaultNs, name) = Absent THEN "NotFound"
    ELSE IF s[kind][name].rv # obj.rv THEN "Conflict"
    ELSE "ok"

\* an accepted update stores the object; the revision moves only when the
\* content differs from what is stored
StoreAfterUpdate(s, kind, name, obj) ==
    IF obj = s[kind][name] THEN s
    ELSE [s EXCEPT ![kind][name] = [obj EXCEPT !.rv = @ + 1]]

\* get of a Node, which has no namespace
StoreGetNode(s, name) == IF name \in DOMAIN s.nodes THEN s.nodes[name] ELSE Absent

\* list(namespace, label cluster-name = clusterName) of MachineDeployments, in
\* the order of their names
MdSeq == <<"md1", "md2">>
StoreListMds(s, ns, clusterName) ==
    LET Matches(d) ==
            /\ ns = DefaultNs
            /\ s.mds[d] # Absent
            /\ (clusterName # "" => s.mds[d].cluster = clusterName)
    IN  SelectSeq(MdSeq, Matches)

\* create(object): AlreadyExists when the name is taken; the store gives the
\* new object its first revision
StoreCreateOutcome(s, kind, name) ==
    IF s[kind][name] # Absent THEN "AlreadyExists" ELSE "ok"
StoreAfterCreate(s, kind, name, obj) == [s EXCEPT ![kind][name] = [obj EXCEPT !.rv = 1]]

\* delete(object): by name, no revision precondition
StoreAfterDelete(s, kind, name) == [s EXCEPT ![kind][name] = Absent]

----------------------------------------------------------------------------
(* Requests *)

NoResult == [isError |-> FALSE, kind |-> "none"]
NoStatus == [none |-> TRUE]
NoHealth == [none |-> TRUE]
NoOpts == [ns |-> "", machine |-> "", node |-> "", uncordon |-> FALSE]
NoPrev ==
    [op |-> "none", name |-> "", force |-> FALSE, isError |-> FALSE, kind |-> "none",
     ann |-> NoAnnotations]

IdleReq(s) ==
    [pc |-> "idle", op |-> "none", ns |-> "", name |-> "", force |-> FALSE,
     target |-> "", replicas |-> 0, md |-> "", log |-> <<>>, obj |-> Absent,
     status |-> NoStatus, health |-> NoHealth, result |-> NoResult,
     provider |-> "", machine |-> "", node |-> "", uncordon |-> FALSE,
     opts |-> NoOpts, version |-> "", workers |-> FALSE, todo |-> <<>>,
     labels |-> NoLabels, annotations |-> NoAnnotations,
     clusterName |-> "", infraProvider |-> "", hasReplicas |-> FALSE,
     infraTemplate |-> FALSE, bootstrapTemplate |-> FALSE,
     pre |-> s, snaps |-> {}, prev |-> NoPrev]

\* a caller may send a request when it has none in flight
CanStart(p) == req[p].pc \in {"idle", "done"} /\ writes < MaxWrites

\* the annotations a Pause or Resume request found on the cluster it got from
\* the store; none when its get failed
PrevAnnotations(r) ==
    IF r.op \in {"Pause", "Resume"} /\ r.obj # Absent
    THEN r.obj.annotations
    ELSE NoAnnotations

\* the request as the handler receives it
NewReq(p, op, ns, name) ==
    [IdleReq(store) EXCEPT
        !.op = op, !.ns = ns, !.name = name,
        !.prev = IF req[p].pc = "done"
                 THEN [op |-> req[p].op, name |-> req[p].name, force |-> req[p].force,
                       isError |-> req[p].result.isError, kind |-> req[p].result.kind,
                       ann |-> PrevAnnotations(req[p])]
                 ELSE NoPrev]

\* the handler returns: an error (Go error or IsError result) or a success result
Return(r, isError, kind) ==
    [r EXCEPT !.pc = "done", !.result = [isError |-> isError, kind |-> kind]]

\* one store call of the request; seen holds the name and revision of every
\* object the call returned (a read) or was given (a write)
Logged(r, verb, kind, name, ok, seen) ==
    [r EXCEPT !.log = Append(@, [verb |-> verb, kind |-> kind, name |-> name, ok |-> ok,
                                 seen |-> seen])]

\* a get that returned object o, or an update or delete of object o
LoggedObj(r, verb, kind, name, ok, o) ==
    Logged(r, verb, kind, name, ok,
           IF o = Absent \/ (verb = "get" /\ ~ok) THEN {} ELSE {<<name, o.rv>>})

\* a list that returned the objects named in items
LoggedList(r, kind, name, ok, items) ==
    Logged(r, "list", kind, name, ok,
           IF ok THEN {<<i, store[kind][i].rv>> : i \in items} ELSE {})

\* "namespace argument is required" / "name argument is required"
ArgsMissing(ns, name) == ns = "" \/ name = ""

IssuedDelete(r) == \E i \in 1..Len(r.log) : r.log[i].verb = "delete"
IssuedWrite(r) ==
    \E i \in 1..Len(r.log) : r.log[i].verb \in {"create", "update", "delete"}

----------------------------------------------------------------------------
(* GetClusterStatus: cluster get, provider lookup, machine list, control plane get *)

\* the ClusterStatus built from the cluster that was read
StatusOfCluster(c) ==
    [phase |-> c.phase,
     ready |-> IsTrueCondition(c.conditions, ReadyCondition),
     controlPlaneReady |-> c.controlPlaneReady,
     infraReady |-> c.infraReady,
     conditions |-> c.conditions,
     version |-> c.topologyVersion,
     provider |-> "",
     totalMachines |-> 0,
     readyMachines |-> 0]

\* what GetProviderForCluster returns for the cluster it read: the provider, and
\* the error "cluster has no infrastructure reference" when there is no reference
GetProviderResult(c) ==
    IF c.infraRef = NoRef THEN [provider |-> "unknown", err |-> TRUE]
    ELSE [provider |-> ProviderForKind(c.infraRef.kind), err |-> FALSE]

\* GetProviderForCluster on the cluster it read (the caller drops its error)
ProviderOfCluster(c) ==
    IF c = Absent THEN "unknown"
    ELSE GetProviderResult(c).provider

\* a handler whose safety check is inverted
Mut_DeleteClusterBlocked(force, status) == ~force /\ ~status.ready

\* the handler's safety check after GetClusterStatus has returned a status
DeleteClusterBlocked(force, status) == ~force /\ status.ready

AfterStatus(r) ==
    CASE r.op = "DeleteCluster" ->
            IF DeleteClusterBlocked(r.force, r.status)
            THEN Return(r, FALSE, "SafetyCheckFailed")
            ELSE [r EXCEPT !.pc = "dc_get"]
      [] r.op = "Health" -> [r EXCEPT !.pc = "h_list"]
      [] r.op = "Upgrade" -> [r EXCEPT !.pc = "ug_get"]
      [] OTHER -> Return(r, FALSE, "ok")

\* whether GetClusterStatus goes on to read the control plane for the version
NeedsKcpVersion(c, status) ==
    /\ c.cpRef # NoRef
    /\ status.version = ""
    /\ c.cpRef.kind = "KubeadmControlPlane"

GCS_GetCluster(p, fail) ==
    /\ req[p].pc = "gcs_get"
    /\ LET r == req[p]
           c == StoreGet(store, "clusters", r.ns, r.name)
           ok == c # Absent /\ ~fail
           r1 == LoggedObj(r, "get", "clusters", r.name, ok, c)
       IN  req' = [req EXCEPT ![p] =
                IF ~ok THEN Return(r1, TRUE, IF c = Absent THEN "NotFound" ELSE "StoreError")
                ELSE [r1 EXCEPT !.obj = c, !.status = StatusOfCluster(c),
                                !.pc = "gcs_provider"]]
    /\ UNCHANGED <<store, writes>>

GCS_Provider(p, fail) ==
    /\ req[p].pc = "gcs_provider"
    /\ LET r == req[p]
           c == StoreGet(store, "clusters", r.ns, r.name)
           ok == c # Absent /\ ~fail
           r1 == LoggedObj(r, "get", "clusters", r.name, ok, c)
       IN  req' = [req EXCEPT ![p] =
                [r1 EXCEPT !.status.provider = IF ok THEN ProviderOfCluster(c) ELSE "unknown",
                           !.pc = "gcs_list"]]
    /\ UNCHANGED <<store, writes>>

GCS_ListMachines(p, fail) ==
    /\ req[p].pc = "gcs_list"
    /\ LET r == req[p]
           ms == StoreListMachines(store, r.ns, r.name)
           r1 == LoggedList(r, "machines", r.name, ~fail, ms)
           r2 == IF fail THEN r1
                 ELSE [r1 EXCEPT
                        !.status.totalMachines = Cardinality(ms),
                        !.status.readyMachines =
                            Cardinality({m \in ms : store.machines[m].nodeRef})]
       IN  req' = [req EXCEPT ![p] =
                IF NeedsKcpVersion(r.obj, r.status)
                THEN [r2 EXCEPT !.pc = "gcs_kcp"]
                ELSE AfterStatus(r2)]
    /\ UNCHANGED <<store, writes>>

GCS_GetKcp(p, fail) ==
    /\ req[p].pc = "gcs_kcp"
    /\ LET r == req[p]
           k == StoreGet(store, "kcps", r.ns, r.obj.cpRef.name)
           ok == k # Absent /\ ~fail
           r1 == LoggedObj(r, "get", "kcps", r.obj.cpRef.name, ok, k)
           r2 == IF ok /\ k.version # "" THEN [r1 EXCEPT !.status.version = k.version]
                 ELSE r1
       IN  req' = [req EXCEPT ![p] = AfterStatus(r2)]
    /\ UNCHANGED <<store, writes>>

----------------------------------------------------------------------------
(* capi_cluster_status and a direct call of GetProviderForCluster *)

StartStatus(p, ns, name) ==
    /\ CanStart(p)
    /\ LET r == NewReq(p, "Status", ns, name)
       IN  req' = [req EXCEPT ![p] =
                IF ArgsMissing(ns, name) THEN Return(r, TRUE, "InvalidArgs")
                ELSE [r EXCEPT !.pc = "gcs_get"]]
    /\ UNCHANGED <<store, writes>>

StartGetProvider(p, ns, name) ==
    /\ CanStart(p)
    /\ req' = [req EXCEPT ![p] = [NewReq(p, "GetProvider", ns, name) EXCEPT !.pc = "gp_get"]]
    /\ UNCHANGED <<store, writes>>

GP_GetCluster(p, fail) ==
    /\ req[p].pc = "gp_get"
    /\ LET r == req[p]
           c == StoreGet(store, "clusters", r.ns, r.name)
           ok == c # Absent /\ ~fail
           r1 == [LoggedObj(r, "get", "clusters", r.name, ok, c) EXCEPT !.provider = "unknown"]
       IN  req' = [req EXCEPT ![p] =
                IF ~ok THEN Return(r1, TRUE, IF c = Absent THEN "NotFound" ELSE "StoreError")
                ELSE Return([r1 EXCEPT !.obj = c, !.provider = GetProviderResult(c).provider],
                            GetProviderResult(c).err,
                            IF GetProviderResult(c).err THEN "NoInfrastructureRef" ELSE "ok")]
    /\ UNCHANGED <<store, writes>>

----------------------------------------------------------------------------
(* capi_delete_cluster: createDeleteClusterHandler and Client.DeleteCluster *)

StartDeleteCluster(p, ns, name, force) ==
    /\ CanStart(p)
    /\ LET r == [NewReq(p, "DeleteCluster", ns, name) EXCEPT !.force = force]
       IN  req' = [req EXCEPT ![p] =
                IF ArgsMissing(ns, name) THEN Return(r, TRUE, "InvalidArgs")
                ELSE [r EXCEPT !.pc = "gcs_get"]]
    /\ UNCHANGED <<store, writes>>

DC_Get(p, fail) ==
    /\ req[p].pc = "dc_get"
    /\ LET r == req[p]
           c == StoreGet(store, "clusters", r.ns, r.name)
           ok == c # Absent /\ ~fail
           r1 == LoggedObj(r, "get", "clusters", r.name, ok, c)
       IN  req' = [req EXCEPT ![p] =
                IF ~ok THEN Return(r1, TRUE, IF c = Absent THEN "NotFound" ELSE "StoreError")
                ELSE [r1 EXCEPT !.obj = c, !.pc = "dc_delete"]]
    /\ UNCHANGED <<store, writes>>

DC_Delete(p, fail) ==
    /\ req[p].pc = "dc_delete"
    /\ LET r == req[p]
           c == StoreGet(store, "clusters", r.ns, r.name)
           ok == c # Absent /\ ~fail
           r1 == LoggedObj(r, "delete", "clusters", r.name, ok, r.obj)
       IN  /\ req' = [req EXCEPT ![p] =
                IF ~ok THEN Return(r1, TRUE, IF c = Absent THEN "NotFound" ELSE "StoreError")
                ELSE Return(r1, FALSE, "ok")]
           /\ store' = IF ok THEN StoreAfterDelete(store, "clusters", r.name) ELSE store
           /\ writes' = IF ok THEN writes + 1 ELSE writes

----------------------------------------------------------------------------
(* capi_delete_machine: createDeleteMachineHandler and Client.DeleteMachine *)

\* a DeleteMachine that lets an unhealthy control-plane machine through
Mut_DeleteMachineCheck_NoControlPlane(force, machine) ==
    IF force THEN "ok"
    ELSE IF MachineIsHealthy(machine) THEN "UnsafeDeleteHealthy"
    ELSE "ok"

\* a DeleteMachine that applies its checks to forced requests too
Mut_DeleteMachineCheck_IgnoresForce(force, machine) ==
    IF MachineIsHealthy(machine) THEN "UnsafeDeleteHealthy"
    ELSE IF IsControlPlaneMachine(machine) THEN "UnsafeDeleteControlPlane"
    ELSE "ok"

\* the checks of DeleteMachine between its get and its delete
DeleteMachineCheck(force, machine) ==
    IF force THEN "ok"
    ELSE IF MachineIsHealthy(machine) THEN "UnsafeDeleteHealthy"
    ELSE IF IsControlPlaneMachine(machine) THEN "UnsafeDeleteControlPlane"
    ELSE "ok"

StartDeleteMachine(p, ns, name, force) ==
    /\ CanStart(p)
    /\ LET r == [NewReq(p, "DeleteMachine", ns, name) EXCEPT !.force = force]
       IN  req' = [req EXCEPT ![p] =
                IF ArgsMissing(ns, name) THEN Return(r, TRUE, "InvalidArgs")
                ELSE [r EXCEPT !.pc = "dm_get"]]
    /\ UNCHANGED <<store, writes>>

DM_Get(p, fail) ==
    /\ req[p].pc = "dm_get"
    /\ LET r == req[p]
           m == StoreGet(store, "machines", r.ns, r.name)
           ok == m # Absent /\ ~fail
           r1 == LoggedObj(r, "get", "machines", r.name, ok, m)
       IN  req' = [req EXCEPT ![p] =
                IF ~ok THEN Return(r1, TRUE, IF m = Absent THEN "NotFound" ELSE "StoreError")
                ELSE IF DeleteMachineCheck(r.force, m) # "ok"
                     THEN Return([r1 EXCEPT !.obj = m], TRUE, DeleteMachineCheck(r.force, m))
                     ELSE [r1 EXCEPT !.obj = m, !.pc = "dm_delete"]]
    /\ UNCHANGED <<store, writes>>

DM_Delete(p, fail) ==
    /\ req[p].pc = "dm_delete"
    /\ LET r == req[p]
           m == StoreGet(store, "machines", r.ns, r.name)
           ok == m # Absent /\ ~fail
           r1 == LoggedObj(r, "delete", "machines", r.name, ok, r.obj)
       IN  /\ req' = [req EXCEPT ![p] =
                IF ~ok THEN Return(r1, TRUE, IF m = Absent THEN "NotFound" ELSE "StoreError")
                ELSE Return(r1, FALSE, "ok")]
           /\ store' = IF ok THEN StoreAfterDelete(store, "machines", r.name) ELSE store
           /\ writes' = IF ok THEN writes + 1 ELSE writes

----------------------------------------------------------------------------
(* capi_scale_cluster: createScaleClusterHandler, ScaleCluster, ScaleControlPlane,
   ScaleMachineDeployment *)

\* a ScaleCluster that does not ask for the machine deployment name
Mut_ScaleRoute(target, md) ==
    CASE target = "controlplane" -> "controlplane"
      [] target = "workers" -> "workers"
      [] OTHER -> "InvalidTarget"

\* the switch of ScaleCluster
ScaleRoute(target, md) ==
    CASE target = "controlplane" -> "controlplane"
      [] target = "workers" -> IF md = "" THEN "MissingTarget" ELSE "workers"
      [] OTHER -> "InvalidTarget"

\* the name under which ScaleCluster looks the control plane up
ScaleControlPlaneName(r) == r.name

StartScale(p, ns, name, target, hasReplicas, replicas, md) ==
    /\ CanStart(p)
    /\ LET r == [NewReq(p, "Scale", ns, name) EXCEPT
                    !.target = target, !.replicas = replicas, !.md = md]
           route == ScaleRoute(target, md)
       IN  req' = [req EXCEPT ![p] =
                IF ArgsMissing(ns, name) \/ target = "" \/ ~hasReplicas
                THEN Return(r, TRUE, "InvalidArgs")
                ELSE IF route = "controlplane" THEN [r EXCEPT !.pc = "sc_getkcp"]
                ELSE IF route = "workers" THEN [r EXCEPT !.pc = "sc_getmd"]
                ELSE Return(r, TRUE, route)]
    /\ UNCHANGED <<store, writes>>

\* a get that hands the object on without the revision it was read at
Mut_GetOrFail(p, at, kind, name, fail, next) ==
    /\ req[p].pc = at
    /\ LET r == req[p]
           o == StoreGet(store, kind, r.ns, name)
           ok == o # Absent /\ ~fail
           r1 == LoggedObj(r, "get", kind, name, ok, o)
       IN  req' = [req EXCEPT ![p] =
                IF ~ok THEN Return(r1, TRUE, IF o = Absent THEN "NotFound" ELSE "StoreError")
                ELSE [r1 EXCEPT !.obj = [o EXCEPT !.rv = 0], !.pc = next]]
    /\ UNCHANGED <<store, writes>>

\* a store get that the caller turns into an error when it fails
GetOrFail(p, at, kind, name, fail, next) ==
    /\ req[p].pc = at
    /\ LET r == req[p]
           o == StoreGet(store, kind, r.ns, name)
           ok == o # Absent /\ ~fail
           r1 == LoggedObj(r, "get", kind, name, ok, o)
       IN  req' = [req EXCEPT ![p] =
                IF ~ok THEN Return(r1, TRUE, IF o = Absent THEN "NotFound" ELSE "StoreError")
                ELSE [r1 EXCEPT !.obj = o, !.pc = next]]
    /\ UNCHANGED <<store, writes>>

\* an update that, when the store rejects it as a conflict, writes the edited
\* object over the stored one
Mut_UpdateAndReturn(p, at, kind, name, obj, fail) ==
    /\ req[p].pc = at
    /\ LET r == req[p]
           out == IF fail THEN "StoreError" ELSE UpdateOutcome(store, kind, name, obj)
           forced == [obj EXCEPT !.rv = store[kind][name].rv]
           r1 == LoggedObj(r, "update", kind, name, out = "ok", obj)
           s1 == IF out = "ok" THEN StoreAfterUpdate(store, kind, name, obj)
                 ELSE IF out = "Conflict" THEN StoreAfterUpdate(store, kind, name, forced)
                 ELSE store
       IN  /\ req' = [req EXCEPT ![p] =
                IF out \in {"ok", "Conflict"}
                THEN Return(LoggedObj(r1, "update", kind, name, TRUE, forced), FALSE, "ok")
                ELSE Return(r1, TRUE, out)]
           /\ store' = s1
           /\ writes' = IF s1 # store THEN writes + 1 ELSE writes

\* a store update of the edited object, after which the operation returns
UpdateAndReturn(p, at, kind, name, obj, fail) ==
    /\ req[p].pc = at
    /\ LET r == req[p]
           out == IF fail THEN "StoreError" ELSE UpdateOutcome(store, kind, name, obj)
           r1 == LoggedObj(r, "update", kind, name, out = "ok", obj)
           s1 == IF out = "ok" THEN StoreAfterUpdate(store, kind, name, obj) ELSE store
       IN  /\ req' = [req EXCEPT ![p] =
                IF out = "ok" THEN Return(r1, FALSE, "ok") ELSE Return(r1, TRUE, out)]
           /\ store' = s1
           /\ writes' = IF s1 # store THEN writes + 1 ELSE writes

SC_GetKcp(p, fail) ==
    GetOrFail(p, "sc_getkcp", "kcps", ScaleControlPlaneName(req[p]), fail, "sc_updkcp")

SC_UpdateKcp(p, fail) ==
    UpdateAndReturn(p, "sc_updkcp", "kcps", ScaleControlPlaneName(req[p]),
                    [req[p].obj EXCEPT !.replicas = req[p].replicas], fail)

SC_GetMd(p, fail) ==
    GetOrFail(p, "sc_getmd", "mds", req[p].md, fail, "sc_updmd")

SC_UpdateMd(p, fail) ==
    UpdateAndReturn(p, "sc_updmd", "mds", req[p].md,
                    [req[p].obj EXCEPT !.replicas = req[p].replicas], fail)


----------------------------------------------------------------------------
(* capi_create_cluster: createCreateClusterHandler and Client.CreateCluster *)

ValidProviders == {"aws", "azure", "gcp", "vsphere"}

\* the switch of getInfraKind
getInfraKind(provider) ==
    CASE provider = "aws" -> "AWSCluster"
      [] provider = "azure" -> "AzureCluster"
      [] provider = "gcp" -> "GCPCluster"
      [] provider = "vsphere" -> "VSphereCluster"
      [] OTHER -> "Cluster"

\* the Cluster that CreateCluster builds: the provider label, the two
\* references, an empty status
NewCluster(name, provider) ==
    [rv |-> 0, annotations |-> NoAnnotations,
     labels |-> [NoLabels EXCEPT ![ProviderLabel] = provider],
     controlPlaneReady |-> FALSE, infraReady |-> FALSE, phase |-> "",
     conditions |-> <<>>,
     cpRef |-> KcpRef(name \o "-control-plane"),
     infraRef |-> [kind |-> getInfraKind(provider), name |-> name],
     topologyVersion |-> ""]

\* a store create of a new object, after which the operation returns
CreateAndReturn(p, at, kind, name, obj, fail) ==
    /\ req[p].pc = at
    /\ LET r == req[p]
           out == IF fail THEN "StoreError" ELSE StoreCreateOutcome(store, kind, name)
           r1 == Logged(r, "create", kind, name, out = "ok", {})
       IN  /\ req' = [req EXCEPT ![p] =
                IF out = "ok" THEN Return(r1, FALSE, "ok") ELSE Return(r1, TRUE, out)]
           /\ store' = IF out = "ok" THEN StoreAfterCreate(store, kind, name, obj)
                       ELSE store
           /\ writes' = IF out = "ok" THEN writes + 1 ELSE writes

StartCreateCluster(p, ns, name, provider) ==
    /\ CanStart(p)
    /\ LET r == [NewReq(p, "CreateCluster", ns, name) EXCEPT !.infraProvider = provider]
       IN  req' = [req EXCEPT ![p] =
                IF ArgsMissing(ns, name) \/ provider = "" THEN Return(r, TRUE, "InvalidArgs")
                ELSE IF provider \notin ValidProviders
                     THEN Return(r, TRUE, "InvalidProvider")
                     ELSE [r EXCEPT !.pc = "cc_create"]]
    /\ UNCHANGED <<store, writes>>

CC_Create(p, fail) ==
    CreateAndReturn(p, "cc_create", "clusters", req[p].name,
                    NewCluster(req[p].name, req[p].infraProvider), fail)

----------------------------------------------------------------------------
(* capi_scale_machinedeployment: createScaleMachineDeploymentHandler, which lists
   the MachineDeployments of the namespace and then calls ScaleMachineDeployment *)

StartScaleMd(p, ns, name, hasReplicas, replicas) ==
    /\ CanStart(p)
    /\ LET r == [NewReq(p, "ScaleMd", ns, name) EXCEPT
                    !.md = name, !.hasReplicas = hasReplicas, !.replicas = replicas]
       IN  req' = [req EXCEPT ![p] =
                IF ArgsMissing(ns, name) \/ ~hasReplicas THEN Return(r, TRUE, "InvalidArgs")
                ELSE [r EXCEPT !.pc = "sm_list"]]
    /\ UNCHANGED <<store, writes>>

\* the list and the loop that looks for the name in it
SM_List(p, fail) ==
    /\ req[p].pc = "sm_list"
    /\ LET r == req[p]
           ds == StoreListMds(store, r.ns, "")
           found == \E i \in 1..Len(ds) : ds[i] = r.md
           r1 == LoggedList(r, "mds", "", ~fail, {ds[i] : i \in 1..Len(ds)})
       IN  req' = [req EXCEPT ![p] =
                IF fail THEN Return(r1, TRUE, "StoreError")
                ELSE IF ~found THEN Return(r1, TRUE, "NotFound")
                ELSE [r1 EXCEPT !.pc = "sc_getmd"]]
    /\ UNCHANGED <<store, writes>>

----------------------------------------------------------------------------
(* capi_create_machinedeployment: createCreateMachineDeploymentHandler and
   Client.CreateMachineDeployment *)

DefaultMdVersion == "v1.29.0"

\* the MachineDeployment that CreateMachineDeployment builds; the handler
\* passes no labels, so the object carries no cluster-name label
NewMachineDeployment(replicas, version) ==
    [rv |-> 0, cluster |-> "", replicas |-> replicas, version |-> version,
     restartedAt |-> NoValue]

StartCreateMd(p, ns, name, clusterName, hasReplicas, replicas, infra, bootstrap, version) ==
    /\ CanStart(p)
    /\ LET r == [NewReq(p, "CreateMd", ns, name) EXCEPT
                    !.md = name, !.clusterName = clusterName,
                    !.hasReplicas = hasReplicas,
                    !.replicas = IF hasReplicas THEN replicas ELSE 1,
                    !.infraTemplate = infra, !.bootstrapTemplate = bootstrap,
                    !.version = IF version = "" THEN DefaultMdVersion ELSE version]
       IN  req' = [req EXCEPT ![p] =
                IF ArgsMissing(ns, name) \/ clusterName = "" THEN Return(r, TRUE, "InvalidArgs")
                ELSE IF ~infra THEN Return(r, TRUE, "MissingInfraRef")
                ELSE IF ~bootstrap THEN Return(r, TRUE, "MissingBootstrapRef")
                ELSE [r EXCEPT !.pc = "cm_create"]]
    /\ UNCHANGED <<store, writes>>

CM_Create(p, fail) ==
    CreateAndReturn(p, "cm_create", "mds", req[p].md,
                    NewMachineDeployment(req[p].replicas, req[p].version), fail)

----------------------------------------------------------------------------
(* capi_update_machinedeployment / capi_rollout_machinedeployment:
   createUpdateMachineDeploymentHandler, createRolloutMachineDeploymentHandler;
   the client functions get the MachineDeployment, edit it and update it *)

StartUpdateMd(p, ns, name, version, hasReplicas, replicas) ==
    /\ CanStart(p)
    /\ LET r == [NewReq(p, "UpdateMd", ns, name) EXCEPT
                    !.md = name, !.version = version,
                    !.hasReplicas = hasReplicas, !.replicas = replicas]
       IN  req' = [req EXCEPT ![p] =
                IF ArgsMissing(ns, name) THEN Return(r, TRUE, "InvalidArgs")
                ELSE [r EXCEPT !.pc = "um_get"]]
    /\ UNCHANGED <<store, writes>>

\* the options that are set replace the fields of the MachineDeployment
UpdateMdEdit(d, version, hasReplicas, replicas) ==
    [d EXCEPT !.version = IF version = "" THEN @ ELSE version,
              !.replicas = IF hasReplicas THEN replicas ELSE @]

UM_Get(p, fail) == GetOrFail(p, "um_get", "mds", req[p].md, fail, "um_update")

UM_Update(p, fail) ==
    UpdateAndReturn(p, "um_update", "mds", req[p].md,
                    UpdateMdEdit(req[p].obj, req[p].version, req[p].hasReplicas,
                                 req[p].replicas), fail)

StartRolloutMd(p, ns, name) ==
    /\ CanStart(p)
    /\ LET r == [NewReq(p, "RolloutMd", ns, name) EXCEPT !.md = name]
       IN  req' = [req EXCEPT ![p] =
                IF ArgsMissing(ns, name) THEN Return(r, TRUE, "InvalidArgs")
                ELSE [r EXCEPT !.pc = "ro_get"]]
    /\ UNCHANGED <<store, writes>>

\* the restart marker on the machine template, set to the time of the call
RolloutEdit(d, now) == [d EXCEPT !.restartedAt = ToString(now)]

RO_Get(p, fail) == GetOrFail(p, "ro_get", "mds", req[p].md, fail, "ro_update")

RO_Update(p, fail, now) ==
    UpdateAndReturn(p, "ro_update", "mds", req[p].md, RolloutEdit(req[p].obj, now), fail)

----------------------------------------------------------------------------
(* capi_pause_cluster / capi_resume_cluster: PauseCluster, ResumeCluster *)

\* a PauseCluster that toggles the annotation
Mut_PauseEdit(c) ==
    [c EXCEPT !.annotations[PausedAnnotation] = IF @ = "true" THEN NoValue ELSE "true"]

\* cluster.Annotations[PausedAnnotation] = "true"
PauseEdit(c) == [c EXCEPT !.annotations[PausedAnnotation] = "true"]

\* a ResumeCluster that clears the annotations altogether
Mut_ResumeEdit(c) == [c EXCEPT !.annotations = NoAnnotations]

\* delete(cluster.Annotations, PausedAnnotation)
ResumeEdit(c) == [c EXCEPT !.annotations[PausedAnnotation] = NoValue]

StartPause(p, ns, name) ==
    /\ CanStart(p)
    /\ LET r == NewReq(p, "Pause", ns, name)
       IN  req' = [req EXCEPT ![p] =
                IF ArgsMissing(ns, name) THEN Return(r, TRUE, "InvalidArgs")
                ELSE [r EXCEPT !.pc = "p_get"]]
    /\ UNCHANGED <<store, writes>>

P_Get(p, fail) == GetOrFail(p, "p_get", "clusters", req[p].name, fail, "p_update")

\* a PauseCluster whose update goes in at whatever revision is stored
Mut_P_Update(p, fail) ==
    UpdateAndReturn(p, "p_update", "clusters", req[p].name,
                    [PauseEdit(req[p].obj) EXCEPT !.rv = store.clusters[req[p].name].rv], fail)

P_Update(p, fail) ==
    UpdateAndReturn(p, "p_update", "clusters", req[p].name, PauseEdit(req[p].obj), fail)

StartResume(p, ns, name) ==
    /\ CanStart(p)
    /\ LET r == NewReq(p, "Resume", ns, name)
       IN  req' = [req EXCEPT ![p] =
                IF ArgsMissing(ns, name) THEN Return(r, TRUE, "InvalidArgs")
                ELSE [r EXCEPT !.pc = "r_get"]]
    /\ UNCHANGED <<store, writes>>

R_Get(p, fail) == GetOrFail(p, "r_get", "clusters", req[p].name, fail, "r_update")

R_Update(p, fail) ==
    UpdateAndReturn(p, "r_update", "clusters", req[p].name, ResumeEdit(req[p].obj), fail)

(* capi_update_cluster: createUpdateClusterHandler and UpdateCluster *)

\* the labels or annotations after the loop over the requested ones: a key that
\* is not requested keeps its value, "" removes the key, another value sets it
MergeKeys(current, requested) ==
    [k \in DOMAIN current |->
        IF requested[k] = NoValue THEN current[k]
        ELSE IF requested[k] = "" THEN NoValue
        ELSE requested[k]]

\* an UpdateCluster that replaces the labels and annotations by the requested ones
Mut_UpdateEdit(c, labels, annotations) ==
    [c EXCEPT !.labels = MergeKeys(NoLabels, labels),
              !.annotations = MergeKeys(NoAnnotations, annotations)]

UpdateEdit(c, labels, annotations) ==
    [c EXCEPT !.labels = MergeKeys(@, labels),
              !.annotations = MergeKeys(@, annotations)]

StartUpdateCluster(p, ns, name, labels, annotations) ==
    /\ CanStart(p)
    /\ LET r == [NewReq(p, "UpdateCluster", ns, name) EXCEPT
                    !.labels = labels, !.annotations = annotations]
       IN  req' = [req EXCEPT ![p] =
                IF ArgsMissing(ns, name) THEN Return(r, TRUE, "InvalidArgs")
                ELSE [r EXCEPT !.pc = "uc_get"]]
    /\ UNCHANGED <<store, writes>>

UC_Get(p, fail) == GetOrFail(p, "uc_get", "clusters", req[p].name, fail, "uc_update")

UC_Update(p, fail) ==
    UpdateAndReturn(p, "uc_update", "clusters", req[p].name,
                    UpdateEdit(req[p].obj, req[p].labels, req[p].annotations), fail)

----------------------------------------------------------------------------
(* capi_upgrade_cluster: createUpgradeClusterHandler and UpgradeCluster *)

StartUpgrade(p, ns, name, version, workers) ==
    /\ CanStart(p)
    /\ LET r == [NewReq(p, "Upgrade", ns, name) EXCEPT
                    !.version = version, !.workers = workers]
       IN  req' = [req EXCEPT ![p] =
                IF ArgsMissing(ns, name) \/ version = "" THEN Return(r, TRUE, "InvalidArgs")
                ELSE [r EXCEPT !.pc = "gcs_get"]]
    /\ UNCHANGED <<store, writes>>

\* an UpgradeCluster in which an unsupported control plane kind is skipped
Mut_UpgradeControlPlaneRoute(c) ==
    IF c.cpRef # NoRef /\ c.cpRef.kind = "KubeadmControlPlane" THEN "kcp" ELSE "none"

\* the switch on cluster.Spec.ControlPlaneRef
UpgradeControlPlaneRoute(c) ==
    IF c.cpRef = NoRef THEN "none"
    ELSE IF c.cpRef.kind = "KubeadmControlPlane" THEN "kcp"
    ELSE "unsupported"

\* after the control plane: the workers when they were asked for
UpgradeWorkersNext(r) ==
    IF r.workers THEN [r EXCEPT !.pc = "ug_list"] ELSE Return(r, FALSE, "ok")

UG_GetCluster(p, fail) ==
    /\ req[p].pc = "ug_get"
    /\ LET r == req[p]
           c == StoreGet(store, "clusters", r.ns, r.name)
           ok == c # Absent /\ ~fail
           r1 == [LoggedObj(r, "get", "clusters", r.name, ok, c) EXCEPT !.obj = c]
           route == UpgradeControlPlaneRoute(c)
       IN  req' = [req EXCEPT ![p] =
                IF ~ok THEN Return([r1 EXCEPT !.obj = r.obj], TRUE,
                                   IF c = Absent THEN "NotFound" ELSE "StoreError")
                ELSE IF route = "kcp" THEN [r1 EXCEPT !.pc = "ug_getkcp"]
                ELSE IF route = "unsupported" THEN Return(r1, TRUE, "UnsupportedControlPlane")
                ELSE UpgradeWorkersNext(r1)]
    /\ UNCHANGED <<store, writes>>

\* the control plane is read in the namespace its reference names
UG_GetKcp(p, fail) ==
    /\ req[p].pc = "ug_getkcp"
    /\ LET r == req[p]
           ref == r.obj.cpRef
           k == StoreGet(store, "kcps", ref.namespace, ref.name)
           ok == k # Absent /\ ~fail
           r1 == LoggedObj(r, "get", "kcps", ref.name, ok, k)
       IN  req' = [req EXCEPT ![p] =
                IF ~ok THEN Return(r1, TRUE, IF k = Absent THEN "NotFound" ELSE "StoreError")
                ELSE [r1 EXCEPT !.todo = <<[name |-> ref.name, obj |-> k]>>,
                                !.pc = "ug_updkcp"]]
    /\ UNCHANGED <<store, writes>>

UG_UpdateKcp(p, fail) ==
    /\ req[p].pc = "ug_updkcp"
    /\ LET r == req[p]
           name == r.todo[1].name
           obj == [r.todo[1].obj EXCEPT !.version = r.version]
           out == IF fail THEN "StoreError" ELSE UpdateOutcome(store, "kcps", name, obj)
           r1 == [LoggedObj(r, "update", "kcps", name, out = "ok", obj) EXCEPT !.todo = <<>>]
           s1 == IF out = "ok" THEN StoreAfterUpdate(store, "kcps", name, obj) ELSE store
       IN  /\ req' = [req EXCEPT ![p] =
                IF out = "ok" THEN UpgradeWorkersNext(r1) ELSE Return(r1, TRUE, out)]
           /\ store' = s1
           /\ writes' = IF s1 # store THEN writes + 1 ELSE writes

\* ListMachineDeployments; the loop then visits the items that have a version
UG_ListMds(p, fail) ==
    /\ req[p].pc = "ug_list"
    /\ LET r == req[p]
           ds == StoreListMds(store, r.ns, r.name)
           HasVersion(d) == store.mds[d].version # NoValue
           todo == [i \in 1..Len(SelectSeq(ds, HasVersion)) |->
                        [name |-> SelectSeq(ds, HasVersion)[i],
                         obj |-> store.mds[SelectSeq(ds, HasVersion)[i]]]]
           r1 == LoggedList(r, "mds", r.name, ~fail, {ds[i] : i \in 1..Len(ds)})
       IN  req' = [req EXCEPT ![p] =
                IF fail THEN Return(r1, TRUE, "StoreError")
                ELSE IF todo = <<>> THEN Return(r1, FALSE, "ok")
                ELSE [r1 EXCEPT !.todo = todo, !.pc = "ug_updmd"]]
    /\ UNCHANGED <<store, writes>>

\* one round of the loop: the update of the next MachineDeployment
UG_UpdateMd(p, fail) ==
    /\ req[p].pc = "ug_updmd"
    /\ LET r == req[p]
           name == r.todo[1].name
           obj == [r.todo[1].obj EXCEPT !.version = r.version]
           out == IF fail THEN "StoreError" ELSE UpdateOutcome(store, "mds", name, obj)
           r1 == [LoggedObj(r, "update", "mds", name, out = "ok", obj) EXCEPT
                        !.todo = Tail(r.todo)]
           s1 == IF out = "ok" THEN StoreAfterUpdate(store, "mds", name, obj) ELSE store
       IN  /\ req' = [req EXCEPT ![p] =
                IF out # "ok" THEN Return([r1 EXCEPT !.todo = <<>>], TRUE, out)
                ELSE IF r1.todo = <<>> THEN Return(r1, FALSE, "ok")
                ELSE r1]
           /\ store' = s1
           /\ writes' = IF s1 # store THEN writes + 1 ELSE writes

----------------------------------------------------------------------------
----------------------------------------------------------------------------
(* capi_cluster_health: createClusterHealthHandler and GetClusterHealth *)

CondText(c) == c.type \o ": " \o c.message

\* "Only %d/%d machines are ready"
WorkersIssue(ready, total) ==
    "Only " \o ToString(ready) \o "/" \o ToString(total) \o " machines are ready"

\* "Cluster phase is '%s', expected 'Provisioned'"
PhaseWarning(phase) == "Cluster phase is '" \o phase \o "', expected 'Provisioned'"

MapSeq(f(_), sq) == [i \in 1..Len(sq) |-> f(sq[i])]

\* a condition walk that takes warnings for issues too
Mut_IsConditionIssue(c) == c.status # "True" /\ c.severity \in {"Error", "Warning"}

IsConditionIssue(c) == c.status # "True" /\ c.severity = "Error"
IsConditionWarning(c) == c.status # "True" /\ c.severity = "Warning"

\* a GetClusterHealth that walks the conditions before it lists the machines
Mut_HealthIssues(status, listOk, ready, total) ==
    (IF ~status.controlPlaneReady THEN <<"Control plane is not ready">> ELSE <<>>)
    \o (IF ~status.infraReady THEN <<"Infrastructure is not ready">> ELSE <<>>)
    \o MapSeq(CondText, SelectSeq(status.conditions, IsConditionIssue))
    \o (IF listOk /\ ~(ready = total /\ total > 0)
        THEN <<WorkersIssue(ready, total)>> ELSE <<>>)

\* the issues in the order GetClusterHealth appends them
HealthIssues(status, listOk, ready, total) ==
    (IF ~status.controlPlaneReady THEN <<"Control plane is not ready">> ELSE <<>>)
    \o (IF ~status.infraReady THEN <<"Infrastructure is not ready">> ELSE <<>>)
    \o (IF listOk /\ ~(ready = total /\ total > 0)
        THEN <<WorkersIssue(ready, total)>> ELSE <<>>)
    \o MapSeq(CondText, SelectSeq(status.conditions, IsConditionIssue))

\* a GetClusterHealth that expects Provisioned of every cluster, phase set or not
Mut_HealthWarnings(status) ==
    MapSeq(CondText, SelectSeq(status.conditions, IsConditionWarning))
    \o (IF status.phase # "Provisioned"
        THEN <<PhaseWarning(status.phase)>> ELSE <<>>)

\* a GetClusterHealth that puts each new warning in front of the earlier ones
Mut_HealthWarnings_Prepended(status) ==
    (IF status.phase # "Provisioned" /\ status.phase # ""
     THEN <<PhaseWarning(status.phase)>> ELSE <<>>)
    \o LET ws == MapSeq(CondText, SelectSeq(status.conditions, IsConditionWarning))
       IN  [i \in 1..Len(ws) |-> ws[Len(ws) + 1 - i]]

\* the warnings in the order GetClusterHealth appends them
HealthWarnings(status) ==
    MapSeq(CondText, SelectSeq(status.conditions, IsConditionWarning))
    \o (IF status.phase # "Provisioned" /\ status.phase # ""
        THEN <<PhaseWarning(status.phase)>> ELSE <<>>)

\* a GetClusterHealth whose worker check assigns Healthy instead of clearing it
Mut_HealthVerdict(status, listOk, ready, total) ==
    LET workersReady == listOk /\ ready = total /\ total > 0
    IN  [healthy |->
            /\ (listOk => workersReady)
            /\ (~listOk => status.controlPlaneReady /\ status.infraReady)
            /\ SelectSeq(status.conditions, IsConditionIssue) = <<>>,
         controlPlaneReady |-> status.controlPlaneReady,
         infraReady |-> status.infraReady,
         workersReady |-> workersReady,
         issues |-> HealthIssues(status, listOk, ready, total),
         warnings |-> HealthWarnings(status)]

\* a GetClusterHealth for which a cluster that is not Provisioned is unhealthy
Mut_HealthVerdict_PhaseStrict(status, listOk, ready, total) ==
    LET workersReady == listOk /\ ready = total /\ total > 0
    IN  [healthy |->
            /\ status.controlPlaneReady
            /\ status.infraReady
            /\ (listOk => workersReady)
            /\ SelectSeq(status.conditions, IsConditionIssue) = <<>>
            /\ status.phase = "Provisioned",
         controlPlaneReady |-> status.controlPlaneReady,
         infraReady |-> status.infraReady,
         workersReady |-> workersReady,
         issues |-> HealthIssues(status, listOk, ready, total),
         warnings |-> HealthWarnings(status)]

\* the verdict GetClusterHealth builds from the status, and from the machine
\* counts when the machine list succeeded
HealthVerdict(status, listOk, ready, total) ==
    LET workersReady == listOk /\ ready = total /\ total > 0
    IN  [healthy |->
            /\ status.controlPlaneReady
            /\ status.infraReady
            /\ (listOk => workersReady)
            /\ SelectSeq(status.conditions, IsConditionIssue) = <<>>,
         controlPlaneReady |-> status.controlPlaneReady,
         infraReady |-> status.infraReady,
         workersReady |-> workersReady,
         issues |-> HealthIssues(status, listOk, ready, total),
         warnings |-> HealthWarnings(status)]

StartHealth(p, ns, name) ==
    /\ CanStart(p)
    /\ LET r == NewReq(p, "Health", ns, name)
       IN  req' = [req EXCEPT ![p] =
                IF ArgsMissing(ns, name) THEN Return(r, TRUE, "InvalidArgs")
                ELSE [r EXCEPT !.pc = "gcs_get"]]
    /\ UNCHANGED <<store, writes>>

\* the machine list of GetClusterHealth and the rest of the function
H_ListMachines(p, fail) ==
    /\ req[p].pc = "h_list"
    /\ LET r == req[p]
           ms == StoreListMachines(store, r.ns, r.name)
           ready == Cardinality({m \in ms : MachineHasReadyTrue(store.machines[m])})
           r1 == LoggedList(r, "machines", r.name, ~fail, ms)
       IN  req' = [req EXCEPT ![p] =
                Return([r1 EXCEPT !.health =
                            HealthVerdict(r.status, ~fail, ready, Cardinality(ms))],
                       FALSE, "ok")]
    /\ UNCHANGED <<store, writes>>

----------------------------------------------------------------------------
(* capi_remediate_machine: createRemediateMachineHandler and RemediateMachine *)

\* a RemediateMachine that builds a new annotation map for the marker
Mut_RemediateEdit(m, now) ==
    [m EXCEPT !.annotations =
        [k \in MachineAnnKeys |-> IF k = RemediateAnnotation THEN ToString(now) ELSE NoValue]]

\* machine.Annotations[remediate-machine] = fmt.Sprintf("%d", time.Now().Unix())
RemediateEdit(m, now) == [m EXCEPT !.annotations[RemediateAnnotation] = ToString(now)]

StartRemediate(p, ns, name) ==
    /\ CanStart(p)
    /\ LET r == NewReq(p, "Remediate", ns, name)
       IN  req' = [req EXCEPT ![p] =
                IF ArgsMissing(ns, name) THEN Return(r, TRUE, "InvalidArgs")
                ELSE [r EXCEPT !.pc = "rm_hget"]]
    /\ UNCHANGED <<store, writes>>

\* the handler's GetMachine, for the status it prints
RM_HandlerGet(p, fail) ==
    GetOrFail(p, "rm_hget", "machines", req[p].name, fail, "rm_get")

RM_Get(p, fail) == GetOrFail(p, "rm_get", "machines", req[p].name, fail, "rm_update")

RM_Update(p, fail, now) ==
    UpdateAndReturn(p, "rm_update", "machines", req[p].name,
                    RemediateEdit(req[p].obj, now), fail)

----------------------------------------------------------------------------
(* capi_drain_node, capi_cordon_node, capi_node_status: the handlers, and the
   node operations of the client they call *)

\* a handler that refuses only when all three arguments are empty
Mut_NodeAddressingInvalid(ns, machine, node) == node = "" /\ ns = "" /\ machine = ""

\* "either node_name or (namespace and machine_name) must be provided"
NodeAddressingInvalid(ns, machine, node) == node = "" /\ (ns = "" \/ machine = "")

\* a handler that never passes the uncordon argument on
Mut_CordonOptions(ns, machine, node, uncordon) ==
    [ns |-> ns, machine |-> machine, node |-> node, uncordon |-> FALSE]

\* the NodeOperationOptions the handlers build from the arguments
CordonOptions(ns, machine, node, uncordon) ==
    [ns |-> ns, machine |-> machine, node |-> node, uncordon |-> uncordon]

\* the three handlers up to the call of the client
StartNodeOp(p, op, ns, machine, node, uncordon) ==
    /\ CanStart(p)
    /\ LET o == CordonOptions(ns, machine, node, uncordon)
           r == [NewReq(p, op, ns, node) EXCEPT
                    !.machine = machine, !.node = node, !.uncordon = uncordon]
       IN  req' = [req EXCEPT ![p] =
                IF NodeAddressingInvalid(ns, machine, node)
                THEN Return(r, TRUE, "InvalidAddressing")
                ELSE [r EXCEPT !.opts = o,
                               !.pc = IF o.node # "" THEN "n_get" ELSE "n_machine"]]
    /\ UNCHANGED <<store, writes>>

StartCordon(p, ns, machine, node, uncordon) == StartNodeOp(p, "Cordon", ns, machine, node, uncordon)
StartDrain(p, ns, machine, node) == StartNodeOp(p, "Drain", ns, machine, node, FALSE)
StartNodeStatus(p, ns, machine, node) == StartNodeOp(p, "NodeStatus", ns, machine, node, FALSE)

\* the resolver: the machine is read and its node reference gives the node
N_ResolveMachine(p, fail) ==
    /\ req[p].pc = "n_machine"
    /\ LET r == req[p]
           m == StoreGet(store, "machines", r.opts.ns, r.opts.machine)
           ok == m # Absent /\ ~fail
           r1 == LoggedObj(r, "get", "machines", r.opts.machine, ok, m)
       IN  req' = [req EXCEPT ![p] =
                IF ~ok THEN Return(r1, TRUE, IF m = Absent THEN "NotFound" ELSE "StoreError")
                ELSE IF ~m.nodeRef THEN Return(r1, TRUE, "NodeNotBound")
                ELSE [r1 EXCEPT !.opts.node = m.nodeName, !.pc = "n_get"]]
    /\ UNCHANGED <<store, writes>>

\* the node is read; the status request returns it
N_GetNode(p, fail) ==
    /\ req[p].pc = "n_get"
    /\ LET r == req[p]
           n == StoreGetNode(store, r.opts.node)
           ok == n # Absent /\ ~fail
           r1 == LoggedObj(r, "get", "nodes", r.opts.node, ok, n)
       IN  req' = [req EXCEPT ![p] =
                IF ~ok THEN Return(r1, TRUE, IF n = Absent THEN "NotFound" ELSE "StoreError")
                ELSE IF r.op = "NodeStatus" THEN Return([r1 EXCEPT !.obj = n], FALSE, "ok")
                ELSE [r1 EXCEPT !.obj = n, !.pc = "n_update"]]
    /\ UNCHANGED <<store, writes>>

\* set or clear unschedulable on the node that was read
CordonEdit(n, uncordon) == [n EXCEPT !.unschedulable = ~uncordon]

\* what DrainNode returns once the node is cordoned: never nil, no eviction is done
DrainNodeOutcome == "has been cordoned"

\* a drain handler without the check for the cordon-only outcome
Mut_DrainResponse(err) ==
    IF err = "nil" THEN [isError |-> FALSE, kind |-> "DrainedAndEvicted"]
    ELSE [isError |-> TRUE, kind |-> err]

\* the drain handler's answer for what DrainNode returned
DrainResponse(err) ==
    IF err = "has been cordoned" THEN [isError |-> FALSE, kind |-> "CordonedNotEvicted"]
    ELSE IF err = "nil" THEN [isError |-> FALSE, kind |-> "DrainedAndEvicted"]
    ELSE [isError |-> TRUE, kind |-> err]

\* the node is written back, and the handler answers
N_UpdateNode(p, fail) ==
    /\ req[p].pc = "n_update"
    /\ LET r == req[p]
           obj == CordonEdit(r.obj, r.opts.uncordon)
           out == IF fail THEN "StoreError"
                  ELSE UpdateOutcome(store, "nodes", r.opts.node, obj)
           r1 == LoggedObj(r, "update", "nodes", r.opts.node, out = "ok", obj)
           s1 == IF out = "ok" THEN StoreAfterUpdate(store, "nodes", r.opts.node, obj)
                 ELSE store
           res == IF r.op = "Drain"
                  THEN DrainResponse(IF out = "ok" THEN DrainNodeOutcome ELSE out)
                  ELSE [isError |-> out # "ok", kind |-> out]
       IN  /\ req' = [req EXCEPT ![p] = Return(r1, res.isError, res.kind)]
           /\ store' = s1
           /\ writes' = IF s1 # store THEN writes + 1 ELSE writes

----------------------------------------------------------------------------
(* The external orchestrator: the controllers that write to the same objects *)

OrchestratorEdit(kind, o) ==
    CASE kind = "clusters" ->
            [o EXCEPT !.phase = IF @ = "Provisioned" THEN "Provisioning" ELSE "Provisioned"]
      [] kind = "mds" -> [o EXCEPT !.version = IF @ = "v1.30.0" THEN "v1.31.0" ELSE "v1.30.0"]
      [] kind = "machines" -> [o EXCEPT !.nodeRef = ~@]
      [] OTHER -> o

Orchestrator(kind, name) ==
    /\ writes < MaxWrites
    /\ StoreGet(store, kind, DefaultNs, name) # Absent
    /\ store' = [store EXCEPT ![kind][name] = [OrchestratorEdit(kind, @) EXCEPT !.rv = @ + 1]]
    /\ writes' = writes + 1
    /\ UNCHANGED req

\* the reconciliation of the controllers: a cluster's control-plane flag or
\* Ready condition, or a machine's Ready and health-check conditions, changes
MachineUp ==
    <<Cond("Ready", "True", "", ""), Cond(MachineHealthCheckSucceededCondition, "True", "", "")>>
MachineDown ==
    <<Cond("Ready", "False", "Warning", "booting"),
      Cond(MachineHealthCheckSucceededCondition, "False", "Warning", "unhealthy")>>
ClusterUp == <<Cond("Ready", "True", "", "")>>
ClusterDown == <<Cond("Ready", "False", "Info", "provisioning")>>

ReconcileEdits(kind, o) ==
    CASE kind = "clusters" ->
            {[o EXCEPT !.controlPlaneReady = ~@],
             [o EXCEPT !.conditions = IF @ = ClusterUp THEN ClusterDown ELSE ClusterUp]}
      [] kind = "machines" ->
            {[o EXCEPT !.conditions = IF @ = MachineUp THEN MachineDown ELSE MachineUp]}
      [] OTHER -> {}

\* a reconciliation write; the requests in flight record the store state it leaves
Reconcile(kind, name) ==
    /\ writes < MaxWrites
    /\ StoreGet(store, kind, DefaultNs, name) # Absent
    /\ \E o \in ReconcileEdits(kind, store[kind][name]) :
            LET s1 == [store EXCEPT ![kind][name] = [o EXCEPT !.rv = @ + 1]]
            IN  /\ store' = s1
                /\ req' = [p \in Procs |->
                            IF req[p].pc \in {"idle", "done"} THEN req[p]
                            ELSE [req[p] EXCEPT !.snaps = @ \cup {s1}]]
    /\ writes' = writes + 1

----------------------------------------------------------------------------
(* Objects the store can hold *)

InfraRef(kind) == [kind |-> kind, name |-> "c1"]

\* a provisioned cluster, its control plane referenced as CreateCluster does
BaseCluster ==
    [rv |-> 1, annotations |-> NoAnnotations, labels |-> NoLabels,
     controlPlaneReady |-> TRUE, infraReady |-> TRUE, phase |-> "Provisioned",
     conditions |-> <<Cond("Ready", "True", "", "")>>,
     cpRef |-> KcpRef("c1-control-plane"), infraRef |-> InfraRef("AWSCluster"),
     topologyVersion |-> ""]

BaseMachine ==
    [rv |-> 1, cluster |-> "c1", conditions |-> <<Cond("Ready", "True", "", "")>>,
     annotations |-> NoMachineAnnotations,
     controlPlane |-> FALSE, nodeRef |-> TRUE, nodeName |-> "n1"]

BaseNode == [rv |-> 1, unschedulable |-> FALSE]

BaseKcp == [rv |-> 1, replicas |-> 1, version |-> "v1.30.0"]
BaseMd ==
    [rv |-> 1, cluster |-> "c1", replicas |-> 1, version |-> "v1.30.0",
     restartedAt |-> NoValue]

BaseStore ==
    [clusters |-> [c \in ClusterNames |-> BaseCluster],
     machines |-> [m \in MachineNames |-> BaseMachine],
     kcps |-> [k \in KcpNames |-> IF k = "c1-control-plane" THEN BaseKcp ELSE Absent],
     mds |-> [d \in MdNames |-> IF d = "md1" THEN BaseMd ELSE Absent],
     nodes |-> [n \in NodeNames |-> BaseNode]]

\* one caller at a time
Callers == {"a"}
NsArgs == {"", DefaultNs}
ClusterArgs == {"", "c1"}
MachineArgs == {"", "m1"}

TypeOK ==
    /\ writes \in 0..(MaxWrites + Cardinality(Procs) * (1 + Len(MdSeq)))
    /\ \A p \in Procs : req[p].pc \in
            {"idle", "done", "gcs_get", "gcs_provider", "gcs_list", "gcs_kcp",
             "dc_get", "dc_delete", "dm_get", "dm_delete", "h_list",
             "p_get", "p_update", "r_get", "r_update",
             "sc_getkcp", "sc_updkcp", "sc_getmd", "sc_updmd", "gp_get",
             "n_machine", "n_get", "n_update",
             "rm_hget", "rm_get", "rm_update",
             "ug_get", "ug_getkcp", "ug_updkcp", "ug_list", "ug_updmd",
             "uc_get", "uc_update",
             "cc_create", "cm_create", "sm_list", "um_get", "um_update",
             "ro_get", "ro_update"}

----------------------------------------------------------------------------
(* Specification of the delete operations *)

DeleteClusterConds ==
    {Cond("Ready", "True", "", ""),
     Cond("Ready", "False", "Error", "not ready"),
     Cond("InfrastructureReady", "True", "", "")}

DeleteMachineConds ==
    {Cond("Ready", "True", "", ""),
     Cond(MachineHealthCheckSucceededCondition, "True", "", ""),
     Cond(MachineHealthCheckSucceededCondition, "False", "Warning", "unhealthy")}

DeleteStores ==
    {[BaseStore EXCEPT !.clusters["c1"] = c] :
        c \in {Absent} \cup
              {[BaseCluster EXCEPT !.conditions = cs] :
                    cs \in CondLists(DeleteClusterConds, MaxConds)}}
    \cup
    {[BaseStore EXCEPT !.machines["m1"] = m] :
        m \in {Absent} \cup
              {[BaseMachine EXCEPT !.conditions = cs, !.controlPlane = cp] :
                    cs \in CondLists(DeleteMachineConds, MaxConds), cp \in BOOLEAN}}

InitDelete ==
    /\ store \in DeleteStores
    /\ req = [p \in Procs |-> IdleReq(store)]
    /\ writes = 0

NextDelete ==
    \E p \in Callers :
        \/ \E ns \in NsArgs, name \in ClusterArgs, force \in BOOLEAN :
                StartDeleteCluster(p, ns, name, force)
        \/ \E ns \in NsArgs, name \in MachineArgs, force \in BOOLEAN :
                StartDeleteMachine(p, ns, name, force)
        \/ \E fail \in BOOLEAN : GCS_GetCluster(p, fail)
        \/ \E fail \in BOOLEAN : GCS_Provider(p, fail)
        \/ \E fail \in BOOLEAN : GCS_ListMachines(p, fail)
        \/ \E fail \in BOOLEAN : GCS_GetKcp(p, fail)
        \/ \E fail \in BOOLEAN : DC_Get(p, fail)
        \/ \E fail \in BOOLEAN : DC_Delete(p, fail)
        \/ \E fail \in BOOLEAN : DM_Get(p, fail)
        \/ \E fail \in BOOLEAN : DM_Delete(p, fail)

SpecDelete == InitDelete /\ [][NextDelete]_vars

----------------------------------------------------------------------------
(* Claims about the delete operations *)

\* the object a request names, as the store held it when the request arrived
PreCluster(r) == StoreGet(r.pre, "clusters", r.ns, r.name)
PreMachine(r) == StoreGet(r.pre, "machines", r.ns, r.name)

\* the object carries a condition of this type with status True
CarriesTrue(obj, type) ==
    \E i \in 1..Len(obj.conditions) :
        obj.conditions[i].type = type /\ obj.conditions[i].status = "True"

PreClusterReady(r) == PreCluster(r) # Absent /\ CarriesTrue(PreCluster(r), "Ready")
PreMachineHealthy(r) ==
    PreMachine(r) # Absent /\ CarriesTrue(PreMachine(r), "HealthCheckSucceeded")
PreMachineControlPlane(r) == PreMachine(r) # Absent /\ PreMachine(r).controlPlane

\* a store read of the request failed and the handler returned that error
ReadFailed(r) == r.result.kind = "StoreError" /\ ~IssuedDelete(r)

\* C1: a delete_cluster request with force=false on a Ready cluster issues no
\* delete call and leaves the store as it was when the request arrived.
C1_DeleteClusterGate ==
    \A p \in Procs :
        (req[p].op = "DeleteCluster" /\ ~req[p].force /\ PreClusterReady(req[p]))
            => (~IssuedDelete(req[p]) /\ store = req[p].pre)

C1_Witness ==
    \E p \in Procs :
        /\ req[p].op = "DeleteCluster" /\ ~req[p].force /\ PreClusterReady(req[p])
        /\ req[p].pc = "done" /\ req[p].result.kind = "SafetyCheckFailed"

\* C2: a delete_cluster request with force=false on a Ready cluster ends in an
\* error result.
C2_UnsafeDeleteIsError ==
    \A p \in Procs :
        (/\ req[p].op = "DeleteCluster" /\ ~req[p].force /\ PreClusterReady(req[p])
         /\ req[p].pc = "done")
            => req[p].result.isError

\* C3 as stated: force=false on a machine with a Ready=True condition fails
\* and issues no delete call.
C3_ReadyMachineBlocked ==
    \A p \in Procs :
        (/\ req[p].op = "DeleteMachine" /\ ~req[p].force /\ req[p].pc = "done"
         /\ PreMachine(req[p]) # Absent /\ CarriesTrue(PreMachine(req[p]), "Ready"))
            => (req[p].result.isError /\ ~IssuedDelete(req[p]))

\* C3 amended: force=false on a machine with a HealthCheckSucceeded=True
\* condition fails with the unsafe-delete error (or the error of a failed read),
\* issues no delete call and changes nothing; with force=true the same machine,
\* once read, gets its delete call.
C3_HealthyMachineBlocked ==
    \A p \in Procs :
        (req[p].op = "DeleteMachine" /\ PreMachineHealthy(req[p]))
            => /\ ~req[p].force =>
                    /\ ~IssuedDelete(req[p]) /\ store = req[p].pre
                    /\ req[p].pc = "done" =>
                          /\ req[p].result.isError
                          /\ req[p].result.kind \in {"UnsafeDeleteHealthy", "StoreError"}
               /\ (req[p].force /\ req[p].pc = "done") =>
                    (IssuedDelete(req[p]) \/ ReadFailed(req[p]))

C3_Witness ==
    \E p \in Procs :
        /\ req[p].op = "DeleteMachine" /\ req[p].pc = "done" /\ req[p].force
        /\ PreMachineHealthy(req[p]) /\ IssuedDelete(req[p])
        /\ req[p].prev.op = "DeleteMachine" /\ req[p].prev.name = req[p].name
        /\ ~req[p].prev.force /\ req[p].prev.kind = "UnsafeDeleteHealthy"

\* C4: force=false on a control-plane machine never issues a delete call and
\* ends in an error, whatever the machine's conditions are.
C4_ControlPlaneNeedsForce ==
    \A p \in Procs :
        (req[p].op = "DeleteMachine" /\ ~req[p].force /\ PreMachineControlPlane(req[p]))
            => /\ ~IssuedDelete(req[p]) /\ store = req[p].pre
               /\ req[p].pc = "done" => req[p].result.isError

C4_Witness ==
    \E p \in Procs :
        /\ req[p].op = "DeleteMachine" /\ ~req[p].force /\ req[p].pc = "done"
        /\ PreMachineControlPlane(req[p]) /\ ~PreMachineHealthy(req[p])
        /\ req[p].result.kind = "UnsafeDeleteControlPlane"

\* C5: with force=true, Delete Machine and Delete Cluster on an existing target
\* issue the delete call unless a store read failed; so does a non-forced
\* Delete Machine on a worker without a True HealthCheckSucceeded condition.
C5_ForceBypasses ==
    \A p \in Procs :
        /\ (/\ req[p].op = "DeleteCluster" /\ req[p].pc = "done"
            /\ req[p].force /\ PreCluster(req[p]) # Absent)
                => (IssuedDelete(req[p]) \/ ReadFailed(req[p]))
        /\ (/\ req[p].op = "DeleteMachine" /\ req[p].pc = "done"
            /\ PreMachine(req[p]) # Absent
            /\ \/ req[p].force
               \/ ~PreMachineControlPlane(req[p]) /\ ~PreMachineHealthy(req[p]))
                => (IssuedDelete(req[p]) \/ ReadFailed(req[p]))

C5_Witness ==
    \E p \in Procs :
        /\ req[p].op = "DeleteCluster" /\ req[p].pc = "done" /\ req[p].force
        /\ PreClusterReady(req[p]) /\ IssuedDelete(req[p])
        /\ ~req[p].result.isError /\ StoreGet(store, "clusters", req[p].ns, req[p].name) = Absent

----------------------------------------------------------------------------
(* Specification of the scale operation *)

ScaleStores ==
    {[BaseStore EXCEPT
        !.clusters["c1"].cpRef = ref,
        !.kcps["c1"] = k1,
        !.mds = [d \in MdNames |-> IF d = "md1" THEN d1
                                   ELSE [BaseMd EXCEPT !.cluster = "c2"]]] :
        ref \in {KcpRef("c1"), KcpRef("c1-control-plane")},
        k1 \in {Absent, BaseKcp},
        d1 \in {Absent, BaseMd}}

\* the arguments of the scale requests that are sent
ScaleArgs ==
    {[ns |-> DefaultNs, name |-> "c1", target |-> t, hasReplicas |-> TRUE,
      replicas |-> n, md |-> d] :
        t \in {"controlplane", "workers", "bogus", ""},
        n \in {3},
        d \in {"", "md1", "md2"}}
    \cup
    {[ns |-> DefaultNs, name |-> "c1", target |-> "workers", hasReplicas |-> TRUE,
      replicas |-> 0, md |-> "md1"],
     [ns |-> "", name |-> "c1", target |-> "workers", hasReplicas |-> TRUE,
      replicas |-> 3, md |-> ""],
     [ns |-> DefaultNs, name |-> "", target |-> "bogus", hasReplicas |-> TRUE,
      replicas |-> 3, md |-> "md1"],
     [ns |-> DefaultNs, name |-> "c1", target |-> "controlplane", hasReplicas |-> FALSE,
      replicas |-> 0, md |-> ""]}

\* the arguments of the MachineDeployment tools that are sent
ScaleMdArgs ==
    {[ns |-> DefaultNs, name |-> "md1", hasReplicas |-> TRUE, replicas |-> 3],
     [ns |-> DefaultNs, name |-> "md3", hasReplicas |-> TRUE, replicas |-> 3],
     [ns |-> DefaultNs, name |-> "md1", hasReplicas |-> FALSE, replicas |-> 0]}

CreateMdArgs ==
    {[ns |-> DefaultNs, name |-> "md1", clusterName |-> "c1", hasReplicas |-> FALSE,
      replicas |-> 0, infra |-> TRUE, bootstrap |-> TRUE, version |-> ""],
     [ns |-> DefaultNs, name |-> "md1", clusterName |-> "c1", hasReplicas |-> TRUE,
      replicas |-> 2, infra |-> FALSE, bootstrap |-> TRUE, version |-> ""],
     [ns |-> DefaultNs, name |-> "md1", clusterName |-> "c1", hasReplicas |-> TRUE,
      replicas |-> 2, infra |-> TRUE, bootstrap |-> FALSE, version |-> ""],
     [ns |-> DefaultNs, name |-> "md1", clusterName |-> "", hasReplicas |-> TRUE,
      replicas |-> 2, infra |-> TRUE, bootstrap |-> TRUE, version |-> ""]}

UpdateMdArgs ==
    {[ns |-> DefaultNs, name |-> "md1", version |-> "v1.31.0", hasReplicas |-> FALSE,
      replicas |-> 0],
     [ns |-> DefaultNs, name |-> "", version |-> "", hasReplicas |-> TRUE, replicas |-> 2]}

InitScale ==
    /\ store \in ScaleStores
    /\ req = [p \in Procs |-> IdleReq(store)]
    /\ writes = 0

NextScale ==
    \E p \in Callers :
        \/ \E a \in ScaleArgs :
                StartScale(p, a.ns, a.name, a.target, a.hasReplicas, a.replicas, a.md)
        \/ \E fail \in BOOLEAN : SC_GetKcp(p, fail)
        \/ \E fail \in BOOLEAN : SC_UpdateKcp(p, fail)
        \/ \E fail \in BOOLEAN : SC_GetMd(p, fail)
        \/ \E fail \in BOOLEAN : SC_UpdateMd(p, fail)
        \/ \E a \in ScaleMdArgs : StartScaleMd(p, a.ns, a.name, a.hasReplicas, a.replicas)
        \/ \E fail \in BOOLEAN : SM_List(p, fail)
        \/ \E a \in CreateMdArgs :
                StartCreateMd(p, a.ns, a.name, a.clusterName, a.hasReplicas, a.replicas,
                              a.infra, a.bootstrap, a.version)
        \/ \E fail \in BOOLEAN : CM_Create(p, fail)
        \/ \E a \in UpdateMdArgs :
                StartUpdateMd(p, a.ns, a.name, a.version, a.hasReplicas, a.replicas)
        \/ \E fail \in BOOLEAN : UM_Get(p, fail)
        \/ \E fail \in BOOLEAN : UM_Update(p, fail)
        \/ StartRolloutMd(p, DefaultNs, "md1")
        \/ \E fail \in BOOLEAN : RO_Get(p, fail)
        \/ \E fail \in BOOLEAN : RO_Update(p, fail, 1700000000)

SpecScale == InitScale /\ [][NextScale]_vars

----------------------------------------------------------------------------
(* Claims about the scale operation *)

\* C6: a scale request for workers without a machine deployment name, or for a
\* target other than controlplane and workers, fails with the matching error
\* and has issued no store call at all.
C6_ScaleValidatedFirst ==
    \A p \in Procs :
        LET r == req[p]
            noName == r.target = "workers" /\ r.md = ""
            badTarget == r.target \notin {"controlplane", "workers"}
        IN  (r.op = "Scale" /\ (noName \/ badTarget))
                => /\ r.pc = "done" /\ r.result.isError
                   /\ r.log = <<>> /\ store = r.pre
                   /\ r.result.kind # "InvalidArgs" =>
                        r.result.kind = IF noName THEN "MissingTarget" ELSE "InvalidTarget"
                   /\ r.result.kind = "InvalidArgs" =>
                        (ArgsMissing(r.ns, r.name) \/ r.target = "")

C6_Witness ==
    \E p \in Procs :
        /\ req[p].op = "Scale" /\ req[p].pc = "done"
        /\ req[p].target = "workers" /\ req[p].md = "" /\ req[p].replicas = 3
        /\ req[p].result.kind = "MissingTarget" /\ req[p].log = <<>>
        /\ req[p].prev.op = "Scale" /\ req[p].prev.kind = "InvalidTarget"

\* the replica counts of every control plane and machine deployment but one
OtherReplicasKept(s, t, kind, name) ==
    /\ \A k \in KcpNames : (kind = "kcps" /\ k = name) \/ s.kcps[k] = t.kcps[k]
    /\ \A d \in MdNames : (kind = "mds" /\ d = name) \/ s.mds[d] = t.mds[d]

\* C7: after a successful scale of cluster C to n, the control plane that C
\* references (target controlplane) or the named machine deployment (target
\* workers) has n desired replicas and no other replica count has changed.
C7_ScaleHitsRoutedObject ==
    \A p \in Procs :
        LET r == req[p]
        IN  (r.op = "Scale" /\ r.pc = "done" /\ ~r.result.isError)
                => /\ (/\ r.target = "controlplane"
                        /\ PreCluster(r) # Absent /\ PreCluster(r).cpRef # NoRef)
                        => /\ store.kcps[PreCluster(r).cpRef.name] # Absent
                           /\ store.kcps[PreCluster(r).cpRef.name].replicas = r.replicas
                           /\ OtherReplicasKept(store, r.pre, "kcps",
                                                PreCluster(r).cpRef.name)
                   /\ r.target = "workers"
                        => /\ store.mds[r.md].replicas = r.replicas
                           /\ OtherReplicasKept(store, r.pre, "mds", r.md)

----------------------------------------------------------------------------
(* Specification of pause and resume *)

PauseStores ==
    {[BaseStore EXCEPT !.clusters["c1"] = c] :
        c \in {Absent} \cup
              {[BaseCluster EXCEPT !.annotations =
                    [k \in AnnKeys |-> IF k = PausedAnnotation THEN pv ELSE ov],
                                   !.labels["env"] = lv] :
                    pv \in {NoValue, "true", "false"}, ov \in {NoValue, "team-a"},
                    lv \in {NoValue, "prod"}}}

InitPause ==
    /\ store \in PauseStores
    /\ req = [p \in Procs |-> IdleReq(store)]
    /\ writes = 0

NextPause ==
    \E p \in Callers :
        \/ \E ns \in NsArgs, name \in ClusterArgs : StartPause(p, ns, name)
        \/ \E ns \in NsArgs, name \in ClusterArgs : StartResume(p, ns, name)
        \/ \E fail \in BOOLEAN : P_Get(p, fail)
        \/ \E fail \in BOOLEAN : P_Update(p, fail)
        \/ \E fail \in BOOLEAN : R_Get(p, fail)
        \/ \E fail \in BOOLEAN : R_Update(p, fail)

SpecPause == InitPause /\ [][NextPause]_vars

----------------------------------------------------------------------------
(* Claims about pause and resume *)

PausedMarker(s, r) == StoreGet(s, "clusters", r.ns, r.name).annotations[PausedAnnotation]

\* C8: with no other writer, a Pause of an existing cluster errs only when a
\* store call fails and leaves the paused marker set, also when the marker was
\* already set by a Pause before it; a Resume leaves the marker absent; a
\* Resume of a cluster without the marker changes nothing in the store.
C8_PauseResumeIdempotent ==
    \A p \in Procs :
        LET r == req[p]
        IN  (r.op \in {"Pause", "Resume"} /\ r.pc = "done" /\ PreCluster(r) # Absent)
                => /\ r.result.isError => r.result.kind = "StoreError" /\ store = r.pre
                   /\ (r.op = "Pause" /\ ~r.result.isError)
                        => PausedMarker(store, r) = "true"
                   /\ (r.op = "Resume" /\ ~r.result.isError)
                        => PausedMarker(store, r) = NoValue
                   /\ (r.op = "Resume" /\ PausedMarker(r.pre, r) = NoValue)
                        => store = r.pre

\* a second Pause in a row has succeeded and the marker is still set
C8_Witness ==
    \E p \in Procs :
        /\ req[p].op = "Pause" /\ req[p].pc = "done" /\ ~req[p].result.isError
        /\ req[p].prev.op = "Pause" /\ ~req[p].prev.isError
        /\ req[p].prev.name = req[p].name
        /\ PausedMarker(req[p].pre, req[p]) = "true"
        /\ PausedMarker(store, req[p]) = "true"

\* C29: after a successful Pause or Resume every annotation but the paused
\* marker, the labels and all other fields of the cluster are as the request
\* found them, and no other object has changed; a Resume that follows a Pause
\* of a cluster without the marker leaves the annotations the cluster had
\* before that Pause.
C29_PauseFrame ==
    \A p \in Procs :
        LET r == req[p]
            c0 == PreCluster(r)
            c1 == StoreGet(store, "clusters", r.ns, r.name)
        IN  (r.op \in {"Pause", "Resume"} /\ r.pc = "done" /\ ~r.result.isError)
                => /\ c0 # Absent /\ c1 # Absent
                   /\ \A k \in AnnKeys \ {PausedAnnotation} :
                        c1.annotations[k] = c0.annotations[k]
                   /\ c1.labels = c0.labels
                   /\ [c1 EXCEPT !.annotations = c0.annotations, !.rv = c0.rv] = c0
                   /\ store = [r.pre EXCEPT !.clusters[r.name] = c1]
                   /\ (/\ r.op = "Resume"
                       /\ r.prev.op = "Pause" /\ ~r.prev.isError /\ r.prev.name = r.name
                       /\ r.prev.ann[PausedAnnotation] = NoValue)
                        => c1.annotations = r.prev.ann

\* a Resume after a Pause of an unpaused cluster that has an owner annotation
\* and a label
C29_Witness ==
    \E p \in Procs :
        LET r == req[p]
        IN  /\ r.op = "Resume" /\ r.pc = "done" /\ ~r.result.isError
            /\ r.prev.op = "Pause" /\ ~r.prev.isError /\ r.prev.name = r.name
            /\ r.prev.ann[PausedAnnotation] = NoValue
            /\ r.prev.ann["owner"] = "team-a"
            /\ PausedMarker(r.pre, r) = "true"
            /\ store.clusters["c1"].annotations = r.prev.ann
            /\ store.clusters["c1"].labels["env"] = "prod"
            /\ store.clusters["c1"].rv = 3

----------------------------------------------------------------------------
(* Specification of the cluster health request *)

HealthClusterConds ==
    {Cond("Ready", "True", "", ""),
     Cond("Ready", "False", "Error", "control plane down"),
     Cond("InfrastructureReady", "False", "Warning", "slow"),
     Cond("InfrastructureReady", "False", "Info", "waiting"),
     Cond("ControlPlaneInitialized", "Unknown", "Error", "lost"),
     Cond("ControlPlaneInitialized", "True", "Error", "stale")}

\* the machines are alike for the request: one store for each choice of how
\* many machines are ready, not ready, and of another cluster
MachineIndex(m) == CHOOSE i \in 1..MaxMachines : m = "m" \o ToString(i)
HealthMachineSets ==
    {[m \in MachineNames |->
        IF MachineIndex(m) <= a THEN BaseMachine
        ELSE IF MachineIndex(m) <= b
             THEN [BaseMachine EXCEPT
                        !.conditions = <<Cond("Ready", "False", "Warning", "booting")>>,
                        !.nodeRef = FALSE]
             ELSE [BaseMachine EXCEPT !.cluster = "c2"]] :
        a \in 0..MaxMachines, b \in 0..MaxMachines}

HealthStores ==
    {[BaseStore EXCEPT !.clusters["c1"] = c, !.machines = ms] :
        c \in {[BaseCluster EXCEPT !.controlPlaneReady = cp, !.infraReady = ir,
                                   !.phase = ph, !.conditions = cs] :
                    cp \in BOOLEAN, ir \in BOOLEAN,
                    ph \in {"", "Provisioned", "Provisioning"},
                    cs \in CondLists(HealthClusterConds, MaxConds)},
        ms \in HealthMachineSets}

InitHealth ==
    /\ store \in HealthStores
    /\ req = [p \in Procs |-> IdleReq(store)]
    /\ writes = 0

NextHealth ==
    \E p \in Callers :
        \/ StartHealth(p, DefaultNs, "c1")
        \/ \E fail \in BOOLEAN : GCS_GetCluster(p, fail)
        \/ \E fail \in BOOLEAN : GCS_Provider(p, fail)
        \/ \E fail \in BOOLEAN : GCS_ListMachines(p, fail)
        \/ \E fail \in BOOLEAN : GCS_GetKcp(p, fail)
        \/ \E fail \in BOOLEAN : H_ListMachines(p, fail)

SpecHealth == InitHealth /\ [][NextHealth]_vars

----------------------------------------------------------------------------
(* Specification of the health request over clusters with long condition
   lists: several conditions that become issues and several that become
   warnings, in every order *)

OrderClusterConds ==
    {Cond("Ready", "True", "", ""),
     Cond("Ready", "False", "Error", "control plane down"),
     Cond("InfrastructureReady", "False", "Warning", "slow"),
     Cond("ControlPlaneInitialized", "Unknown", "Error", "lost"),
     Cond("ControlPlaneReady", "False", "Warning", "scaling")}

OrderMachineSets ==
    {BaseStore.machines,
     [m \in MachineNames |->
        [BaseMachine EXCEPT
            !.conditions = <<Cond("Ready", "False", "Warning", "booting")>>,
            !.nodeRef = FALSE]]}

OrderStores ==
    {[BaseStore EXCEPT !.clusters["c1"] = c, !.machines = ms] :
        c \in {[BaseCluster EXCEPT !.controlPlaneReady = cp, !.infraReady = ir,
                                   !.phase = ph, !.conditions = cs] :
                    cp \in BOOLEAN, ir \in BOOLEAN,
                    ph \in {"Provisioned", "Provisioning"},
                    cs \in CondLists(OrderClusterConds, MaxOrderConds)},
        ms \in OrderMachineSets}

InitHealthOrder ==
    /\ store \in OrderStores
    /\ req = [p \in Procs |-> IdleReq(store)]
    /\ writes = 0

NextHealthOrder ==
    \E p \in Callers :
        \/ StartHealth(p, DefaultNs, "c1")
        \/ \E fail \in BOOLEAN : GCS_GetCluster(p, fail)
        \/ \E fail \in BOOLEAN : GCS_Provider(p, fail)
        \/ \E fail \in BOOLEAN : GCS_ListMachines(p, fail)
        \/ \E fail \in BOOLEAN : GCS_GetKcp(p, fail)
        \/ \E fail \in BOOLEAN : H_ListMachines(p, fail)

SpecHealthOrder == InitHealthOrder /\ [][NextHealthOrder]_vars

----------------------------------------------------------------------------
(* Claims about the health verdict *)

Contains(sq, x) == \E i \in 1..Len(sq) : sq[i] = x

\* the health request has returned a verdict
HasVerdict(r) == r.op = "Health" /\ r.pc = "done" /\ ~r.result.isError

\* the machines of the request's cluster, and the ready ones among them
ClusterMachines(r) ==
    {m \in MachineNames : r.pre.machines[m] # Absent /\ r.pre.machines[m].cluster = r.name}
ReadyClusterMachines(r) ==
    {m \in ClusterMachines(r) : CarriesTrue(r.pre.machines[m], "Ready")}

\* C9: a cluster with controlPlaneReady=false or infraReady=false gets a
\* verdict with healthy=false that holds the matching issue, whatever its
\* machines, conditions and phase are.
C9_HealthMonotone ==
    \A p \in Procs :
        HasVerdict(req[p])
            => /\ ~PreCluster(req[p]).controlPlaneReady
                    => /\ ~req[p].health.healthy
                       /\ Contains(req[p].health.issues, "Control plane is not ready")
               /\ ~PreCluster(req[p]).infraReady
                    => /\ ~req[p].health.healthy
                       /\ Contains(req[p].health.issues, "Infrastructure is not ready")

\* a verdict for a cluster whose only defect is the control plane flag
C9_Witness ==
    \E p \in Procs :
        /\ HasVerdict(req[p])
        /\ ~PreCluster(req[p]).controlPlaneReady /\ PreCluster(req[p]).infraReady
        /\ ReadyClusterMachines(req[p]) = ClusterMachines(req[p])
        /\ ClusterMachines(req[p]) # {}
        /\ PreCluster(req[p]).phase = "Provisioned"
        /\ req[p].health.issues = <<"Control plane is not ready">>
        /\ ~req[p].health.healthy

\* C10: workersReady is true iff all of the cluster's machines, and at least
\* one, carry Ready=True; when workersReady is false the verdict has
\* healthy=false and the issue "Only r/t machines are ready".
C10_WorkersReady ==
    \A p \in Procs :
        LET r == req[p]
            total == Cardinality(ClusterMachines(r))
            ready == Cardinality(ReadyClusterMachines(r))
        IN  HasVerdict(r)
                => /\ r.health.workersReady <=> (ready = total /\ total > 0)
                   /\ ~r.health.workersReady
                        => /\ ~r.health.healthy
                           /\ Contains(r.health.issues,
                                "Only " \o ToString(ready) \o "/" \o ToString(total)
                                    \o " machines are ready")

----------------------------------------------------------------------------
(* Claims about the content of the verdict *)

NotTrueError(c) == c.status # "True" /\ c.severity = "Error"
NotTrueWarning(c) == c.status # "True" /\ c.severity = "Warning"
ClaimText(c) == c.type \o ": " \o c.message
TextsOf(sq) == [i \in 1..Len(sq) |-> ClaimText(sq[i])]

ErrorConds(r) == SelectSeq(PreCluster(r).conditions, NotTrueError)
WarningConds(r) == SelectSeq(PreCluster(r).conditions, NotTrueWarning)

\* the machine list of the health request itself was answered
HealthListOk(r) == r.log[Len(r.log)].ok

WorkersAllReady(r) ==
    ClusterMachines(r) # {} /\ ReadyClusterMachines(r) = ClusterMachines(r)

ControlPlaneIssue == "Control plane is not ready"
InfraIssue == "Infrastructure is not ready"
IsWorkersIssue(x) ==
    \E a, b \in 0..MaxMachines :
        x = "Only " \o ToString(a) \o "/" \o ToString(b) \o " machines are ready"
IsConditionText(x) == x # ControlPlaneIssue /\ x # InfraIssue /\ ~IsWorkersIssue(x)

PhaseText(r) == "Cluster phase is '" \o PreCluster(r).phase \o "', expected 'Provisioned'"
PhaseMismatch(r) == PreCluster(r).phase \notin {"", "Provisioned"}

CountOf(sq, x) == Cardinality({i \in 1..Len(sq) : sq[i] = x})

\* C11: a cluster with both readiness flags set, at least one machine and all
\* machines Ready=True, every condition True, and phase empty or Provisioned
\* gets the verdict healthy=true with no issues and no warnings.
C11_AllGoodIsHealthy ==
    \A p \in Procs :
        LET r == req[p]
            c == PreCluster(r)
        IN  (/\ HasVerdict(r)
             /\ c.controlPlaneReady /\ c.infraReady
             /\ WorkersAllReady(r)
             /\ \A i \in 1..Len(c.conditions) : c.conditions[i].status = "True"
             /\ ~PhaseMismatch(r))
                => /\ r.health.healthy
                   /\ r.health.issues = <<>>
                   /\ r.health.warnings = <<>>

\* a healthy verdict for such a cluster with two conditions and an empty phase
C11_Witness ==
    \E p \in Procs :
        LET r == req[p]
            c == PreCluster(r)
        IN  /\ HasVerdict(r) /\ HealthListOk(r)
            /\ c.controlPlaneReady /\ c.infraReady
            /\ WorkersAllReady(r)
            /\ Len(c.conditions) = 2
            /\ \A i \in 1..Len(c.conditions) : c.conditions[i].status = "True"
            /\ c.phase = ""
            /\ r.health.healthy /\ r.health.workersReady

\* C12: each condition that is not True with severity Error gives one issue and
\* makes the verdict unhealthy; each one that is not True with severity Warning
\* gives one warning and leaves healthy alone; no other condition adds anything.
C12_ConditionWalk ==
    \A p \in Procs :
        LET r == req[p]
            c == PreCluster(r)
        IN  HasVerdict(r)
                => /\ Len(SelectSeq(r.health.issues, IsConditionText)) = Len(ErrorConds(r))
                   /\ \A i \in 1..Len(ErrorConds(r)) :
                        CountOf(r.health.issues, ClaimText(ErrorConds(r)[i])) = 1
                   /\ ErrorConds(r) # <<>> => ~r.health.healthy
                   /\ Len(r.health.warnings)
                        = Len(WarningConds(r)) + CountOf(r.health.warnings, PhaseText(r))
                   /\ \A i \in 1..Len(WarningConds(r)) :
                        CountOf(r.health.warnings, ClaimText(WarningConds(r)[i])) = 1
                   /\ (/\ c.controlPlaneReady /\ c.infraReady
                       /\ WorkersAllReady(r)
                       /\ ErrorConds(r) = <<>>) => r.health.healthy

\* a healthy verdict with one warning, for a cluster that has a Warning
\* condition and a True condition of severity Error
C12_Witness ==
    \E p \in Procs :
        LET r == req[p]
            c == PreCluster(r)
        IN  /\ HasVerdict(r)
            /\ Len(WarningConds(r)) = 1
            /\ \E i \in 1..Len(c.conditions) :
                    c.conditions[i].status = "True" /\ c.conditions[i].severity = "Error"
            /\ r.health.healthy
            /\ r.health.issues = <<>>
            /\ r.health.warnings = TextsOf(WarningConds(r))

\* C13: a phase that is set and is not Provisioned gives exactly one phase
\* warning and no issue, and healthy is what the flags, the machines and the
\* conditions make it, whatever the phase; an empty or Provisioned phase gives
\* no phase warning.
C13_PhaseInformational ==
    \A p \in Procs :
        LET r == req[p]
            c == PreCluster(r)
        IN  HasVerdict(r)
                => /\ CountOf(r.health.warnings, PhaseText(r))
                        = (IF PhaseMismatch(r) THEN 1 ELSE 0)
                   /\ CountOf(r.health.issues, PhaseText(r)) = 0
                   /\ r.health.healthy
                        <=> /\ c.controlPlaneReady /\ c.infraReady
                            /\ (HealthListOk(r) => WorkersAllReady(r))
                            /\ ErrorConds(r) = <<>>

\* a healthy verdict for a cluster in phase Provisioning: the phase warning only
C13_Witness ==
    \E p \in Procs :
        LET r == req[p]
        IN  /\ HasVerdict(r) /\ HealthListOk(r)
            /\ PreCluster(r).phase = "Provisioning"
            /\ r.health.healthy
            /\ r.health.issues = <<>>
            /\ r.health.warnings = <<PhaseText(r)>>

IssueRank(x) ==
    IF x = ControlPlaneIssue THEN 1
    ELSE IF x = InfraIssue THEN 2
    ELSE IF IsWorkersIssue(x) THEN 3
    ELSE 4

\* C14: issues are ordered control plane, infrastructure, workers, conditions,
\* the condition issues in the order of the cluster's condition list; warnings
\* hold the condition warnings in condition-list order, then the phase warning.
C14_DiscoveryOrder ==
    \A p \in Procs :
        LET r == req[p]
            is == r.health.issues
            ws == r.health.warnings
            IsNotPhaseText(x) == x # PhaseText(r)
        IN  HasVerdict(r)
                => /\ \A i, j \in 1..Len(is) :
                        i < j => /\ IssueRank(is[i]) <= IssueRank(is[j])
                                 /\ IssueRank(is[j]) < 4 => IssueRank(is[i]) < IssueRank(is[j])
                   /\ SelectSeq(is, IsConditionText) = TextsOf(ErrorConds(r))
                   /\ SelectSeq(ws, IsNotPhaseText) = TextsOf(WarningConds(r))
                   /\ \A i \in 1..Len(ws) : ws[i] = PhaseText(r) => i = Len(ws)

\* a verdict for a cluster whose condition list alternates warning, error,
\* warning, error: both flag issues, the workers issue and the two condition
\* issues in list order; the two condition warnings in list order and then
\* the phase warning
C14_Witness ==
    \E p \in Procs :
        LET r == req[p]
        IN  /\ HasVerdict(r) /\ HealthListOk(r)
            /\ PreCluster(r).conditions =
                    <<Cond("ControlPlaneReady", "False", "Warning", "scaling"),
                      Cond("ControlPlaneInitialized", "Unknown", "Error", "lost"),
                      Cond("InfrastructureReady", "False", "Warning", "slow"),
                      Cond("Ready", "False", "Error", "control plane down")>>
            /\ Len(r.health.issues) = 5
            /\ SubSeq(r.health.issues, 4, 5) = TextsOf(ErrorConds(r))
            /\ Len(ErrorConds(r)) = 2 /\ Len(WarningConds(r)) = 2
            /\ r.health.warnings = TextsOf(WarningConds(r)) \o <<PhaseText(r)>>
            /\ r.health.warnings[1] # r.health.warnings[2]

\* C28: in every verdict healthy is true exactly when there is no issue, and a
\* healthy verdict has controlPlaneReady, infraReady and workersReady all true.
C28_HealthyMeansAllReady ==
    \A p \in Procs :
        LET r == req[p]
        IN  HasVerdict(r)
                => /\ r.health.healthy <=> (r.health.issues = <<>>)
                   /\ r.health.healthy
                        => /\ r.health.controlPlaneReady
                           /\ r.health.infraReady
                           /\ r.health.workersReady

\* some store call of the request was not answered
SomeCallFailed(r) == \E i \in 1..Len(r.log) : ~r.log[i].ok

\* C23: a request during which a store call failed returns an error and no
\* success payload, the machine listings and the provider lookup of the status
\* and health requests included.
C23_NothingSwallowed ==
    \A p \in Procs :
        (req[p].pc = "done" /\ SomeCallFailed(req[p])) => req[p].result.isError

(* Specification of the cluster upgrade *)

TargetVersion == "v1.31.0"

UpgradeRefs ==
    {NoRef,
     KcpRef("c1-control-plane"),
     DefaultedKcpRef("c1-control-plane"),
     [DefaultedKcpRef("c1-control-plane") EXCEPT !.kind = "AWSManagedControlPlane"]}

UpgradeStores ==
    {[BaseStore EXCEPT
        !.clusters["c1"].cpRef = ref,
        !.kcps["c1-control-plane"] = k,
        !.mds = [d \in MdNames |-> IF d = "md1" THEN d1 ELSE d2]] :
        ref \in UpgradeRefs,
        k \in {Absent, BaseKcp},
        d1 \in {BaseMd, [BaseMd EXCEPT !.version = NoValue]},
        d2 \in {Absent, BaseMd, [BaseMd EXCEPT !.cluster = "c2"]}}

UpgradeArgs ==
    {[ns |-> DefaultNs, name |-> "c1", version |-> v, workers |-> w] :
        v \in {"", TargetVersion}, w \in BOOLEAN}
    \cup {[ns |-> "", name |-> "c1", version |-> TargetVersion, workers |-> TRUE]}

InitUpgrade ==
    /\ store \in UpgradeStores
    /\ req = [p \in Procs |-> IdleReq(store)]
    /\ writes = 0

NextUpgrade ==
    \E p \in Callers :
        \/ \E a \in UpgradeArgs : StartUpgrade(p, a.ns, a.name, a.version, a.workers)
        \/ \E fail \in BOOLEAN : GCS_GetCluster(p, fail)
        \/ \E fail \in BOOLEAN : GCS_Provider(p, fail)
        \/ \E fail \in BOOLEAN : GCS_ListMachines(p, fail)
        \/ \E fail \in BOOLEAN : GCS_GetKcp(p, fail)
        \/ \E fail \in BOOLEAN : UG_GetCluster(p, fail)
        \/ \E fail \in BOOLEAN : UG_GetKcp(p, fail)
        \/ \E fail \in BOOLEAN : UG_UpdateKcp(p, fail)
        \/ \E fail \in BOOLEAN : UG_ListMds(p, fail)
        \/ \E fail \in BOOLEAN : UG_UpdateMd(p, fail)

SpecUpgrade == InitUpgrade /\ [][NextUpgrade]_vars

\* the positions of the request's log that hold an answered update of a kind
OkUpdates(r, kind) ==
    {i \in 1..Len(r.log) :
        r.log[i].verb = "update" /\ r.log[i].kind = kind /\ r.log[i].ok}
SentUpdates(r, kind) ==
    {i \in 1..Len(r.log) : r.log[i].verb = "update" /\ r.log[i].kind = kind}

\* C30: in an upgrade of a cluster that has a control-plane reference, an
\* update of a MachineDeployment is sent only after the control-plane update
\* of the same request was accepted; while no control-plane update was
\* accepted the MachineDeployments are as the request found them, and a
\* request that ends so ends in an error; with upgrade_workers=false no
\* MachineDeployment is written.
C30_ControlPlaneFirst ==
    \A p \in Procs :
        LET r == req[p]
            c == PreCluster(r)
        IN  r.op = "Upgrade"
                => /\ (c # Absent /\ c.cpRef # NoRef)
                        => /\ \A i \in SentUpdates(r, "mds") :
                                \E j \in OkUpdates(r, "kcps") : j < i
                           /\ OkUpdates(r, "kcps") = {}
                                => /\ store.mds = r.pre.mds
                                   /\ r.pc = "done" => r.result.isError
                   /\ (c # Absent /\ c.cpRef # NoRef
                            /\ c.cpRef.kind # "KubeadmControlPlane" /\ r.pc = "done")
                        => r.result.isError /\ store = r.pre
                   /\ ~r.workers
                        => store.mds = r.pre.mds /\ SentUpdates(r, "mds") = {}

\* an upgrade with workers that moved the control plane and then both
\* MachineDeployments to the target version
C30_Witness ==
    \E p \in Procs :
        LET r == req[p]
        IN  /\ r.op = "Upgrade" /\ r.pc = "done" /\ ~r.result.isError /\ r.workers
            /\ PreCluster(r).cpRef = DefaultedKcpRef("c1-control-plane")
            /\ r.pre.kcps["c1-control-plane"] = BaseKcp
            /\ r.pre.mds["md1"] = BaseMd /\ r.pre.mds["md2"] = BaseMd
            /\ store.kcps["c1-control-plane"] = [BaseKcp EXCEPT !.version = "v1.31.0", !.rv = 2]
            /\ store.mds["md1"] = [BaseMd EXCEPT !.version = "v1.31.0", !.rv = 2]
            /\ store.mds["md2"] = [BaseMd EXCEPT !.version = "v1.31.0", !.rv = 2]
            /\ OkUpdates(r, "kcps") # {}
            /\ Cardinality(OkUpdates(r, "mds")) = 2

----------------------------------------------------------------------------
(* Specification of machine readiness: status and health over machines whose
   Ready condition and node reference vary on their own *)

ReadinessMachines ==
    {[BaseMachine EXCEPT !.conditions = <<Cond("Ready", st, "", "")>>,
                         !.nodeRef = nr, !.cluster = cl] :
        st \in {"True", "False"}, nr \in BOOLEAN, cl \in {"c1", "c2"}}

ReadinessStores ==
    {[BaseStore EXCEPT !.machines = ms] : ms \in [MachineNames -> ReadinessMachines]}

InitReadiness ==
    /\ store \in ReadinessStores
    /\ req = [p \in Procs |-> IdleReq(store)]
    /\ writes = 0

NextReadiness ==
    \E p \in Callers :
        \/ StartStatus(p, DefaultNs, "c1")
        \/ StartHealth(p, DefaultNs, "c1")
        \/ \E fail \in BOOLEAN : GCS_GetCluster(p, fail)
        \/ \E fail \in BOOLEAN : GCS_Provider(p, fail)
        \/ \E fail \in BOOLEAN : GCS_ListMachines(p, fail)
        \/ \E fail \in BOOLEAN : GCS_GetKcp(p, fail)
        \/ \E fail \in BOOLEAN : H_ListMachines(p, fail)

SpecReadiness == InitReadiness /\ [][NextReadiness]_vars

\* every store call of the request was answered
AllCallsOk(r) == \A i \in 1..Len(r.log) : r.log[i].ok

\* C24: when every store call of a status or health request is answered, the
\* ReadyMachines of the status equals the number of the cluster's machines
\* with Ready=True, and so does the count behind the health verdict, whether
\* or not the machines have a node reference.
C24_ReadinessUniform ==
    \A p \in Procs :
        LET r == req[p]
            total == Cardinality(ClusterMachines(r))
            ready == Cardinality(ReadyClusterMachines(r))
        IN  (r.op \in {"Status", "Health"} /\ r.pc = "done" /\ ~r.result.isError
                /\ AllCallsOk(r))
                => /\ r.status.totalMachines = total
                   /\ r.status.readyMachines = ready
                   /\ r.op = "Health"
                        => (r.health.workersReady <=> (ready = total /\ total > 0))

----------------------------------------------------------------------------
----------------------------------------------------------------------------
(* Specification of the provider classification *)

InfraKinds ==
    {"AWSCluster", "AzureCluster", "GCPCluster", "VSphereCluster",
     "awscluster", "DockerCluster"}

ProviderStores ==
    {[BaseStore EXCEPT !.clusters["c1"] = c] :
        c \in {[BaseCluster EXCEPT !.infraRef = ir, !.topologyVersion = v] :
                    ir \in {NoRef} \cup {InfraRef(k) : k \in InfraKinds},
                    v \in {"", "v1.30.0"}}}

InitProvider ==
    /\ store \in ProviderStores
    /\ req = [p \in Procs |-> IdleReq(store)]
    /\ writes = 0

NextProvider ==
    \E p \in Callers :
        \/ StartGetProvider(p, DefaultNs, "c1")
        \/ StartStatus(p, DefaultNs, "c1")
        \/ StartHealth(p, DefaultNs, "c1")
        \/ \E fail \in BOOLEAN : GP_GetCluster(p, fail)
        \/ \E fail \in BOOLEAN : GCS_GetCluster(p, fail)
        \/ \E fail \in BOOLEAN : GCS_Provider(p, fail)
        \/ \E fail \in BOOLEAN : GCS_ListMachines(p, fail)
        \/ \E fail \in BOOLEAN : GCS_GetKcp(p, fail)
        \/ \E fail \in BOOLEAN : H_ListMachines(p, fail)

SpecProvider == InitProvider /\ [][NextProvider]_vars

----------------------------------------------------------------------------
(* Claims about the provider classification *)

\* the lookup table of the classifier
ProviderTable(kind) ==
    IF kind = "AWSCluster" THEN "aws"
    ELSE IF kind = "AzureCluster" THEN "azure"
    ELSE IF kind = "GCPCluster" THEN "gcp"
    ELSE IF kind = "VSphereCluster" THEN "vsphere"
    ELSE "unknown"

ExpectedProvider(c) == IF c.infraRef = NoRef THEN "unknown" ELSE ProviderTable(c.infraRef.kind)

\* the request's cluster reads were all answered
ClusterReadsOk(r) ==
    \A i \in 1..Len(r.log) : r.log[i].kind = "clusters" => r.log[i].ok

\* C15: the classification of a cluster that was read is the table's entry for
\* its infrastructure kind, unknown for any other kind and for a cluster
\* without infrastructure reference, and never an error; a status or health
\* request of such a cluster is answered, with that provider in the status.
C15_ProviderClassification ==
    \A p \in Procs :
        LET r == req[p]
        IN  /\ (r.op = "GetProvider" /\ r.pc = "done" /\ ClusterReadsOk(r))
                => /\ r.provider = ExpectedProvider(PreCluster(r))
                   /\ ~r.result.isError
            /\ (r.op \in {"Status", "Health"} /\ r.pc = "done" /\ ClusterReadsOk(r))
                => /\ ~r.result.isError
                   /\ r.status.provider = ExpectedProvider(PreCluster(r))

----------------------------------------------------------------------------
(* Specification of the node operations *)

NodeStores ==
    {[BaseStore EXCEPT !.nodes["n1"] = n, !.machines["m1"] = m] :
        n \in {Absent, BaseNode, [BaseNode EXCEPT !.unschedulable = TRUE]},
        m \in {Absent, BaseMachine, [BaseMachine EXCEPT !.nodeRef = FALSE]}}

NodeArgs == {"", "n1"}

InitNode ==
    /\ store \in NodeStores
    /\ req = [p \in Procs |-> IdleReq(store)]
    /\ writes = 0

NextNode ==
    \E p \in Callers :
        \/ \E ns \in NsArgs, m \in MachineArgs, n \in NodeArgs, u \in BOOLEAN :
                StartCordon(p, ns, m, n, u)
        \/ \E ns \in NsArgs, m \in MachineArgs, n \in NodeArgs : StartDrain(p, ns, m, n)
        \/ \E ns \in NsArgs, m \in MachineArgs, n \in NodeArgs : StartNodeStatus(p, ns, m, n)
        \/ \E fail \in BOOLEAN : N_ResolveMachine(p, fail)
        \/ \E fail \in BOOLEAN : N_GetNode(p, fail)
        \/ \E fail \in BOOLEAN : N_UpdateNode(p, fail)

SpecNode == InitNode /\ [][NextNode]_vars

----------------------------------------------------------------------------
(* Claims about the node operations *)

NodeOps == {"Cordon", "Drain", "NodeStatus"}

\* the node the request addresses, directly or through its machine
AddressedNode(r) ==
    IF r.node # "" THEN r.node
    ELSE IF r.ns = DefaultNs /\ r.machine \in MachineNames
            /\ r.pre.machines[r.machine] # Absent /\ r.pre.machines[r.machine].nodeRef
         THEN r.pre.machines[r.machine].nodeName
         ELSE ""

Unschedulable(s, n) == s.nodes[n].unschedulable

\* C16: a drain, cordon/uncordon or node-status request with no node name and
\* with no namespace or no machine name fails, and has issued no store call.
C16_AddressingCheckedFirst ==
    \A p \in Procs :
        LET r == req[p]
        IN  (r.op \in NodeOps /\ r.node = "" /\ (r.ns = "" \/ r.machine = ""))
                => /\ r.pc = "done"
                   /\ r.result.isError
                   /\ r.result.kind = "InvalidAddressing"
                   /\ r.log = <<>>
                   /\ store = r.pre

\* a drain request with a namespace only has been refused
C16_Witness ==
    \E p \in Procs :
        /\ req[p].op = "Drain" /\ req[p].pc = "done"
        /\ req[p].node = "" /\ req[p].ns = DefaultNs /\ req[p].machine = ""
        /\ req[p].result.kind = "InvalidAddressing"

\* the request addresses a node that exists
NodeExists(r) ==
    AddressedNode(r) \in NodeNames /\ r.pre.nodes[AddressedNode(r)] # Absent

\* C17: a successful Cordon leaves the node with unschedulable=true and a
\* successful Uncordon with unschedulable=false, whatever the flag was; on a
\* node that already has the requested flag the request errs only when a store
\* call fails, and the store stays as it was.
C17_CordonSetsFlag ==
    \A p \in Procs :
        LET r == req[p]
        IN  (r.op = "Cordon" /\ r.pc = "done")
                => /\ ~r.result.isError
                        => /\ NodeExists(r)
                           /\ Unschedulable(store, AddressedNode(r)) = ~r.uncordon
                   /\ (NodeExists(r) /\ r.result.isError) => r.result.kind = "StoreError"
                   /\ (NodeExists(r) /\ Unschedulable(r.pre, AddressedNode(r)) = ~r.uncordon)
                        => store = r.pre

\* an Uncordon of a cordoned node, addressed through its machine, has succeeded
\* right after a Cordon of the same node
C17_Witness ==
    \E p \in Procs :
        LET r == req[p]
        IN  /\ r.op = "Cordon" /\ r.pc = "done" /\ ~r.result.isError
            /\ r.uncordon /\ r.node = "" /\ r.machine = "m1"
            /\ r.prev.op = "Cordon" /\ ~r.prev.isError
            /\ NodeExists(r)
            /\ Unschedulable(r.pre, "n1")
            /\ ~Unschedulable(store, "n1")

\* C18: a Drain of an existing node that does not fail leaves the node with
\* unschedulable=true and answers that the node was cordoned and its pods were
\* not evicted; it fails only when a store call fails; no drain answer says
\* that the pods were evicted.
C18_DrainIsCordonOnly ==
    \A p \in Procs :
        LET r == req[p]
        IN  (r.op = "Drain" /\ r.pc = "done")
                => /\ r.result.kind # "DrainedAndEvicted"
                   /\ ~r.result.isError
                        => /\ NodeExists(r)
                           /\ Unschedulable(store, AddressedNode(r))
                           /\ r.result.kind = "CordonedNotEvicted"
                   /\ (NodeExists(r) /\ r.result.isError)
                        => r.result.kind = "StoreError" /\ store = r.pre

\* a Drain of a schedulable node by name has answered, and the node is cordoned
C18_Witness ==
    \E p \in Procs :
        LET r == req[p]
        IN  /\ r.op = "Drain" /\ r.pc = "done" /\ r.node = "n1"
            /\ NodeExists(r)
            /\ ~Unschedulable(r.pre, "n1")
            /\ Unschedulable(store, "n1")
            /\ r.result = [isError |-> FALSE, kind |-> "CordonedNotEvicted"]

----------------------------------------------------------------------------
(* Specification of the remediation request *)

RemediateStores ==
    {[BaseStore EXCEPT !.machines["m1"] = m] :
        m \in {Absent} \cup
              {[BaseMachine EXCEPT !.annotations =
                    [k \in MachineAnnKeys |-> IF k = RemediateAnnotation THEN rv ELSE ov],
                                   !.controlPlane = cp] :
                    rv \in {NoValue, "1700000000"}, ov \in {NoValue, "team-a"},
                    cp \in BOOLEAN}}

InitRemediate ==
    /\ store \in RemediateStores
    /\ req = [p \in Procs |-> IdleReq(store)]
    /\ writes = 0

NextRemediate ==
    \E p \in Callers :
        \/ \E ns \in NsArgs, name \in MachineArgs : StartRemediate(p, ns, name)
        \/ \E fail \in BOOLEAN : RM_HandlerGet(p, fail)
        \/ \E fail \in BOOLEAN : RM_Get(p, fail)
        \/ \E fail \in BOOLEAN, now \in NowValues : RM_Update(p, fail, now)

SpecRemediate == InitRemediate /\ [][NextRemediate]_vars

----------------------------------------------------------------------------
(* Claims about remediation *)

\* decimal texts of the seconds a clock can show
TimestampTexts == {ToString(1700000000 + i) : i \in 0..MaxClock}

UpdatesIn(r) == {i \in 1..Len(r.log) : r.log[i].verb = "update"}

\* C19: a successful Remediate of an existing machine has issued exactly one
\* update, its last store call, and no delete; the machine then carries a
\* timestamp as remediation marker, its other annotations and all its other
\* fields are as before, and no other object has changed.
C19_RemediateMarksOnly ==
    \A p \in Procs :
        LET r == req[p]
            m0 == PreMachine(r)
            m1 == StoreGet(store, "machines", r.ns, r.name)
        IN  (r.op = "Remediate" /\ r.pc = "done" /\ ~r.result.isError)
                => /\ m0 # Absent /\ m1 # Absent
                   /\ m1.annotations[RemediateAnnotation] \in TimestampTexts
                   /\ \A k \in MachineAnnKeys \ {RemediateAnnotation} :
                        m1.annotations[k] = m0.annotations[k]
                   /\ [m1 EXCEPT !.annotations = m0.annotations, !.rv = m0.rv] = m0
                   /\ store = [r.pre EXCEPT !.machines[r.name] = m1]
                   /\ UpdatesIn(r) = {Len(r.log)}
                   /\ ~IssuedDelete(r)

\* a Remediate of a machine with an owner annotation and no marker has succeeded
C19_Witness ==
    \E p \in Procs :
        LET r == req[p]
        IN  /\ r.op = "Remediate" /\ r.pc = "done" /\ ~r.result.isError
            /\ PreMachine(r) # Absent
            /\ PreMachine(r).annotations["owner"] = "team-a"
            /\ PreMachine(r).annotations[RemediateAnnotation] = NoValue
            /\ store.machines["m1"].annotations[RemediateAnnotation] \in TimestampTexts
            /\ store.machines["m1"].rv = PreMachine(r).rv + 1

----------------------------------------------------------------------------
(* Specification of concurrent writers: two callers and the orchestrator; both
   callers pause and resume the cluster, the first also scales and remediates *)

InitConflict ==
    /\ store = BaseStore
    /\ req = [p \in Procs |-> IdleReq(store)]
    /\ writes = 0

\* the store answers every call here: rejected writes are conflicts only
StoreFaults == {FALSE}

NextConflict ==
    \/ \E p \in Callers :
        \/ StartScale(p, DefaultNs, "c1", "workers", TRUE, 3, "md1")
        \/ StartRemediate(p, DefaultNs, "m1")
    \/ \E p \in Procs :
        \/ StartPause(p, DefaultNs, "c1")
        \/ StartResume(p, DefaultNs, "c1")
        \/ \E fail \in StoreFaults : P_Get(p, fail)
        \/ \E fail \in StoreFaults : P_Update(p, fail)
        \/ \E fail \in StoreFaults : R_Get(p, fail)
        \/ \E fail \in StoreFaults : R_Update(p, fail)
        \/ \E fail \in StoreFaults : SC_GetMd(p, fail)
        \/ \E fail \in StoreFaults : SC_UpdateMd(p, fail)
        \/ \E fail \in StoreFaults : RM_HandlerGet(p, fail)
        \/ \E fail \in StoreFaults : RM_Get(p, fail)
        \/ \E fail \in StoreFaults : RM_Update(p, fail, 1700000000)
    \/ Orchestrator("clusters", "c1")
    \/ Orchestrator("mds", "md1")
    \/ Orchestrator("machines", "m1")

SpecConflict == InitConflict /\ [][NextConflict]_vars

----------------------------------------------------------------------------
(* Claims about conflicting writes *)

TargetKind(r) ==
    IF r.op \in {"Pause", "Resume"} THEN "clusters"
    ELSE IF r.op = "Scale" THEN "mds"
    ELSE "machines"
TargetName(r) == IF r.op = "Scale" THEN r.md ELSE r.name

\* the request has read its target and is about to write it
AtWrite(r) == r.pc \in {"p_update", "r_update", "sc_updmd", "rm_update"}

\* another writer has changed the target since the request read it
TargetChanged(s, r) ==
    /\ AtWrite(r)
    /\ s[TargetKind(r)][TargetName(r)] # Absent
    /\ s[TargetKind(r)][TargetName(r)].rv # r.obj.rv

\* a request that ended in a conflict: an error, after one write attempt, its last call
EndedInConflict(r) ==
    /\ r.pc = "done" /\ r.result.kind = "Conflict"

\* C20: when the target was changed by another writer between a request's read
\* and its write, the write step ends the request with an error and leaves the
\* store as the other writer left it; a request that ended in a conflict has
\* made one write attempt, its last store call, and no write of it succeeded.
C20_NoRetryOnConflict ==
    /\ [](\A p \in Procs :
            EndedInConflict(req[p])
                => /\ req[p].result.isError
                   /\ UpdatesIn(req[p]) = {Len(req[p].log)}
                   /\ ~req[p].log[Len(req[p].log)].ok
                   /\ ~IssuedDelete(req[p]))
    /\ [][\A p \in Procs :
            (TargetChanged(store, req[p]) /\ req'[p] # req[p])
                => /\ req'[p].pc = "done"
                   /\ req'[p].result.isError
                   /\ req'[p].result.kind \in {"Conflict", "StoreError"}
                   /\ Len(req'[p].log) = Len(req[p].log) + 1
                   /\ store' = store]_vars

\* a scale request has succeeded after the caller's previous one, of the same
\* deployment, ended in a conflict with the orchestrator's write
C20_Witness ==
    \E p \in Procs :
        LET r == req[p]
        IN  /\ r.op = "Scale" /\ r.pc = "done" /\ ~r.result.isError
            /\ r.prev.op = "Scale" /\ r.prev.kind = "Conflict" /\ r.prev.isError
            /\ store.mds["md1"].replicas = 3
            /\ store.mds["md1"].version = "v1.31.0"
            /\ store.mds["md1"].rv = 3

----------------------------------------------------------------------------
(* Specification of the operations side by side: one caller that sends any
   request, and the orchestrator writing between its store calls *)

\* a cluster whose reference is as CreateCluster wrote it and one whose
\* reference names the namespace, with a second MachineDeployment
OperationsStores ==
    {BaseStore,
     [BaseStore EXCEPT !.mds["md2"] = BaseMd,
                       !.clusters["c1"].cpRef = DefaultedKcpRef("c1-control-plane")]}

InitOperations ==
    /\ store \in OperationsStores
    /\ req = [p \in Procs |-> IdleReq(store)]
    /\ writes = 0

RequestedLabels == [k \in LabelKeys |-> IF k = "env" THEN "prod" ELSE NoValue]
RequestedAnnotations == [k \in AnnKeys |-> IF k = "owner" THEN "team-b" ELSE NoValue]

NextOperations ==
    \/ \E p \in Callers :
        \/ StartStatus(p, DefaultNs, "c1")
        \/ StartHealth(p, DefaultNs, "c1")
        \/ \E force \in BOOLEAN : StartDeleteCluster(p, DefaultNs, "c1", force)
        \/ \E force \in BOOLEAN : StartDeleteMachine(p, DefaultNs, "m1", force)
        \/ StartScale(p, DefaultNs, "c1", "workers", TRUE, 3, "md1")
        \/ StartScale(p, DefaultNs, "c1-control-plane", "controlplane", TRUE, 3, "")
        \/ StartPause(p, DefaultNs, "c1")
        \/ StartResume(p, DefaultNs, "c1")
        \/ StartRemediate(p, DefaultNs, "m1")
        \/ StartUpdateCluster(p, DefaultNs, "c1", RequestedLabels, RequestedAnnotations)
        \/ StartUpgrade(p, DefaultNs, "c1", TargetVersion, TRUE)
        \/ \E provider \in {"aws", "openstack"} :
                StartCreateCluster(p, DefaultNs, "c1", provider)
        \/ StartScaleMd(p, DefaultNs, "md1", TRUE, 3)
        \/ StartCreateMd(p, DefaultNs, "md2", "c1", TRUE, 2, TRUE, TRUE, "")
        \/ StartUpdateMd(p, DefaultNs, "md1", TargetVersion, TRUE, 2)
        \/ StartRolloutMd(p, DefaultNs, "md1")
        \/ \E fail \in StoreFaults : CC_Create(p, fail)
        \/ \E fail \in StoreFaults : SM_List(p, fail)
        \/ \E fail \in StoreFaults : CM_Create(p, fail)
        \/ \E fail \in StoreFaults : UM_Get(p, fail)
        \/ \E fail \in StoreFaults : UM_Update(p, fail)
        \/ \E fail \in StoreFaults : RO_Get(p, fail)
        \/ \E fail \in StoreFaults : RO_Update(p, fail, 1700000000)
        \/ \E fail \in StoreFaults : GCS_GetCluster(p, fail)
        \/ \E fail \in StoreFaults : GCS_Provider(p, fail)
        \/ \E fail \in StoreFaults : GCS_ListMachines(p, fail)
        \/ \E fail \in StoreFaults : GCS_GetKcp(p, fail)
        \/ \E fail \in StoreFaults : H_ListMachines(p, fail)
        \/ \E fail \in StoreFaults : DC_Get(p, fail)
        \/ \E fail \in StoreFaults : DC_Delete(p, fail)
        \/ \E fail \in StoreFaults : DM_Get(p, fail)
        \/ \E fail \in StoreFaults : DM_Delete(p, fail)
        \/ \E fail \in StoreFaults : SC_GetKcp(p, fail)
        \/ \E fail \in StoreFaults : SC_UpdateKcp(p, fail)
        \/ \E fail \in StoreFaults : SC_GetMd(p, fail)
        \/ \E fail \in StoreFaults : SC_UpdateMd(p, fail)
        \/ \E fail \in StoreFaults : P_Get(p, fail)
        \/ \E fail \in StoreFaults : P_Update(p, fail)
        \/ \E fail \in StoreFaults : R_Get(p, fail)
        \/ \E fail \in StoreFaults : R_Update(p, fail)
        \/ \E fail \in StoreFaults : RM_HandlerGet(p, fail)
        \/ \E fail \in StoreFaults : RM_Get(p, fail)
        \/ \E fail \in StoreFaults : RM_Update(p, fail, 1700000000)
        \/ \E fail \in StoreFaults : UC_Get(p, fail)
        \/ \E fail \in StoreFaults : UC_Update(p, fail)
        \/ \E fail \in StoreFaults : UG_GetCluster(p, fail)
        \/ \E fail \in StoreFaults : UG_GetKcp(p, fail)
        \/ \E fail \in StoreFaults : UG_UpdateKcp(p, fail)
        \/ \E fail \in StoreFaults : UG_ListMds(p, fail)
        \/ \E fail \in StoreFaults : UG_UpdateMd(p, fail)
    \/ Orchestrator("clusters", "c1")
    \/ Orchestrator("mds", "md1")
    \/ Orchestrator("machines", "m1")

SpecOperations == InitOperations /\ [][NextOperations]_vars

----------------------------------------------------------------------------
(* Claims about the store calls of an operation *)

MutatingOps ==
    {"DeleteMachine", "DeleteCluster", "Scale", "ScaleMd", "Pause", "Resume",
     "Remediate", "UpdateCluster", "Upgrade"}
IsReadCall(e) == e.verb \in {"get", "list"}
IsWriteCall(e) == e.verb \in {"update", "delete"}
IsCreateCall(e) == e.verb = "create"

\* C21: every update or delete a mutating request sends names an object, at a
\* revision, that an earlier answered get or list of the same request returned.
C21_ReadBeforeWrite ==
    \A p \in Procs :
        LET r == req[p]
        IN  r.op \in MutatingOps
                => \A i \in 1..Len(r.log) :
                        IsWriteCall(r.log[i])
                            => /\ r.log[i].seen # {}
                               /\ \E j \in 1..(i - 1) :
                                    /\ IsReadCall(r.log[j]) /\ r.log[j].ok
                                    /\ r.log[j].kind = r.log[i].kind
                                    /\ r.log[i].seen \subseteq r.log[j].seen

\* a scale request wrote the deployment at the revision the orchestrator's
\* write had left, which the request read
C21_Witness ==
    \E p \in Procs :
        LET r == req[p]
        IN  /\ r.op = "Scale" /\ r.pc = "done" /\ ~r.result.isError
            /\ r.pre.mds["md1"].rv = 1
            /\ Len(r.log) = 2
            /\ r.log[1].verb = "get" /\ r.log[1].seen = {<<"md1", 2>>}
            /\ r.log[2].verb = "update" /\ r.log[2].ok /\ r.log[2].seen = {<<"md1", 2>>}
            /\ store.mds["md1"].rv = 3 /\ store.mds["md1"].replicas = 3

ReadCalls(r) == {i \in 1..Len(r.log) : IsReadCall(r.log[i])}
WriteCalls(r) ==
    {i \in 1..Len(r.log) : IsWriteCall(r.log[i]) \/ IsCreateCall(r.log[i])}
CreateOps == {"CreateCluster", "CreateMd"}
OneReadOps == {"Pause", "Resume", "Scale", "UpdateCluster", "DeleteMachine"}
ReadOnlyOps == {"Status", "Health", "GetProvider"}

\* C22 as stated: an operation issues one read and then at most one write.
C22_OneReadOneWrite ==
    \A p \in Procs :
        LET r == req[p]
        IN  /\ Cardinality(ReadCalls(r)) <= 1
            /\ Cardinality(WriteCalls(r)) <= 1
            /\ \A i \in WriteCalls(r) : \E j \in ReadCalls(r) : j < i

\* C22: an operation's store calls begin with a read, except for the two
\* create operations, which issue one create and nothing else, and no
\* operation writes one object twice. Scale-machinedeployment lists, gets and
\* then updates. Pause, resume, scale, update-cluster and delete-machine issue
\* one read and then at most one write; status and health issue reads only;
\* delete-cluster and remediate issue several reads and then at most one
\* write, their last call; upgrade writes the control plane and each
\* MachineDeployment at most once, each after a read of it.
C22_ReadsThenWrites ==
    \A p \in Procs :
        LET r == req[p]
        IN  /\ (r.op \notin CreateOps /\ r.log # <<>>) => IsReadCall(r.log[1])
            /\ r.op \in CreateOps
                    => /\ ReadCalls(r) = {}
                       /\ \A i \in WriteCalls(r) : IsCreateCall(r.log[i])
            /\ r.op = "ScaleMd" => Cardinality(ReadCalls(r)) <= 2
            /\ \A i, j \in WriteCalls(r) :
                    (r.log[i].kind = r.log[j].kind /\ r.log[i].name = r.log[j].name)
                        => i = j
            /\ r.op \in OneReadOps
                    => /\ Cardinality(ReadCalls(r)) <= 1
                       /\ Cardinality(WriteCalls(r)) <= 1
            /\ r.op \in ReadOnlyOps => WriteCalls(r) = {}
            /\ r.op # "Upgrade"
                    => /\ Cardinality(WriteCalls(r)) <= 1
                       /\ \A i \in WriteCalls(r) : i = Len(r.log) /\ r.pc = "done"
            /\ r.op = "Upgrade"
                    => /\ Cardinality(WriteCalls(r)) <= 1 + Len(MdSeq)
                       /\ \A i \in WriteCalls(r) :
                            \E j \in ReadCalls(r) :
                                j < i /\ r.log[j].ok /\ r.log[j].kind = r.log[i].kind

\* an upgrade that read seven times and wrote the control plane and both
\* MachineDeployments
C22_Witness ==
    \E p \in Procs :
        LET r == req[p]
        IN  /\ r.op = "Upgrade" /\ r.pc = "done" /\ ~r.result.isError
            /\ Cardinality(WriteCalls(r)) = 3
            /\ Cardinality(ReadCalls(r)) >= 5
            /\ \A i \in WriteCalls(r) : r.log[i].ok
            /\ \E i \in WriteCalls(r) : \E j \in ReadCalls(r) : i < j

----------------------------------------------------------------------------
(* Specification of concurrent writers of one cluster: two callers that pause,
   resume and update the metadata of the same cluster *)

InitLostUpdate ==
    /\ store \in {BaseStore,
                  [BaseStore EXCEPT !.clusters["c1"].annotations["owner"] = "team-a"]}
    /\ req = [p \in Procs |-> IdleReq(store)]
    /\ writes = 0

NextLostUpdate ==
    \E p \in Procs :
        \/ StartPause(p, DefaultNs, "c1")
        \/ StartResume(p, DefaultNs, "c1")
        \/ StartUpdateCluster(p, DefaultNs, "c1", RequestedLabels, RequestedAnnotations)
        \/ \E fail \in StoreFaults : P_Get(p, fail)
        \/ \E fail \in StoreFaults : P_Update(p, fail)
        \/ \E fail \in StoreFaults : R_Get(p, fail)
        \/ \E fail \in StoreFaults : R_Update(p, fail)
        \/ \E fail \in StoreFaults : UC_Get(p, fail)
        \/ \E fail \in StoreFaults : UC_Update(p, fail)

SpecLostUpdate == InitLostUpdate /\ [][NextLostUpdate]_vars

\* what a request is meant to change on the cluster c
ClaimEffect(r, c) ==
    CASE r.op = "Pause" -> [c EXCEPT !.annotations[PausedAnnotation] = "true"]
      [] r.op = "Resume" -> [c EXCEPT !.annotations[PausedAnnotation] = NoValue]
      [] r.op = "UpdateCluster" ->
            [c EXCEPT
                !.labels = [k \in LabelKeys |->
                                IF r.labels[k] = NoValue THEN c.labels[k]
                                ELSE IF r.labels[k] = "" THEN NoValue ELSE r.labels[k]],
                !.annotations = [k \in AnnKeys |->
                                IF r.annotations[k] = NoValue THEN c.annotations[k]
                                ELSE IF r.annotations[k] = "" THEN NoValue
                                ELSE r.annotations[k]]]
      [] OTHER -> c

ClusterWriters == {"Pause", "Resume", "UpdateCluster"}
SucceededWrite(r) == r.op \in ClusterWriters /\ r.pc = "done" /\ ~r.result.isError

\* the two requests were in flight together: both arrived before either wrote
BothInFlight(r1, r2) == r1.pre = r2.pre /\ r1.prev.op = "none" /\ r2.prev.op = "none"

\* C27: a write that returns success leaves the cluster as the stored one, with
\* whatever others wrote to it, changed by this request's edit alone; and when
\* two requests that were in flight together both succeed, the cluster is the
\* one they found with both edits applied in one of the two orders.
C27_NoLostUpdate ==
    /\ [][\A p \in Procs :
            (req[p].pc \in {"p_update", "r_update", "uc_update"}
                /\ SucceededWrite(req'[p]))
                => [store'.clusters["c1"] EXCEPT !.rv = store.clusters["c1"].rv]
                        = ClaimEffect(req[p], store.clusters["c1"])]_vars
    /\ [](\A p, q \in Procs :
            (p # q /\ SucceededWrite(req[p]) /\ SucceededWrite(req[q])
                /\ BothInFlight(req[p], req[q]))
                => LET c0 == req[p].pre.clusters["c1"]
                       c1 == [store.clusters["c1"] EXCEPT !.rv = c0.rv]
                   IN  \/ c1 = ClaimEffect(req[q], ClaimEffect(req[p], c0))
                       \/ c1 = ClaimEffect(req[p], ClaimEffect(req[q], c0)))

\* a Pause and an UpdateCluster that were in flight together have both
\* succeeded, and the cluster carries the marker, the label and the owner
C27_Witness ==
    /\ SucceededWrite(req["a"]) /\ SucceededWrite(req["b"])
    /\ req["a"].op = "Pause" /\ req["b"].op = "UpdateCluster"
    /\ BothInFlight(req["a"], req["b"])
    /\ req["a"].pre.clusters["c1"].annotations["owner"] = "team-a"
    /\ store.clusters["c1"].annotations[PausedAnnotation] = "true"
    /\ store.clusters["c1"].annotations["owner"] = "team-b"
    /\ store.clusters["c1"].labels["env"] = "prod"
    /\ store.clusters["c1"].rv = 3

----------------------------------------------------------------------------
(* Specification of requests racing the reconciliation: health and non-forced
   deletes of one caller, with reconciliation writes between its store calls *)

RaceStores ==
    {[BaseStore EXCEPT !.clusters["c1"].conditions = cc,
                       !.clusters["c1"].controlPlaneReady = cp,
                       !.machines["m1"].conditions = mc] :
        cc \in {ClusterUp, ClusterDown}, cp \in BOOLEAN, mc \in {MachineUp, MachineDown}}

InitRace ==
    /\ store \in RaceStores
    /\ req = [p \in Procs |-> IdleReq(store)]
    /\ writes = 0

NextRace ==
    \/ \E p \in Callers :
        \/ StartHealth(p, DefaultNs, "c1")
        \/ StartDeleteCluster(p, DefaultNs, "c1", FALSE)
        \/ StartDeleteMachine(p, DefaultNs, "m1", FALSE)
        \/ \E fail \in StoreFaults : GCS_GetCluster(p, fail)
        \/ \E fail \in StoreFaults : GCS_Provider(p, fail)
        \/ \E fail \in StoreFaults : GCS_ListMachines(p, fail)
        \/ \E fail \in StoreFaults : GCS_GetKcp(p, fail)
        \/ \E fail \in StoreFaults : H_ListMachines(p, fail)
        \/ \E fail \in StoreFaults : DC_Get(p, fail)
        \/ \E fail \in StoreFaults : DC_Delete(p, fail)
        \/ \E fail \in StoreFaults : DM_Get(p, fail)
        \/ \E fail \in StoreFaults : DM_Delete(p, fail)
    \/ Reconcile("clusters", "c1")
    \/ Reconcile("machines", "m1")

SpecRace == InitRace /\ [][NextRace]_vars

\* the store states that existed while the request was in flight
StatesDuring(r) == {r.pre} \cup r.snaps

\* the verdict of the cluster and the machines of one store state
SnapshotVerdict(s, ns, name) ==
    LET ms == StoreListMachines(s, ns, name)
        ready == Cardinality({m \in ms : CarriesTrue(s.machines[m], "Ready")})
    IN  HealthVerdict(StatusOfCluster(s.clusters[name]), TRUE, ready, Cardinality(ms))

\* C25: the verdict of a health request is the verdict of one of the store
\* states that existed during the request, and the request writes nothing.
C25_VerdictOfOneSnapshot ==
    \A p \in Procs :
        LET r == req[p]
        IN  (HasVerdict(r) /\ AllCallsOk(r))
                => /\ \E s \in StatesDuring(r) :
                        /\ s.clusters[r.name] # Absent
                        /\ r.health = SnapshotVerdict(s, r.ns, r.name)
                   /\ WriteCalls(r) = {}

\* C26: a non-forced delete request deletes a cluster only in a store state in
\* which the cluster is not Ready, and a machine only in a store state in
\* which the machine's health check has not succeeded.
C26_NoDeleteOfReady ==
    [][\A p \in Procs :
        /\ (/\ req[p].pc = "dc_delete" /\ ~req[p].force
            /\ store.clusters[req[p].name] # Absent
            /\ store'.clusters[req[p].name] = Absent)
                => ~CarriesTrue(store.clusters[req[p].name], "Ready")
        /\ (/\ req[p].pc = "dm_delete" /\ ~req[p].force
            /\ store.machines[req[p].name] # Absent
            /\ store'.machines[req[p].name] = Absent)
                => ~CarriesTrue(store.machines[req[p].name],
                                MachineHealthCheckSucceededCondition)]_vars

----------------------------------------------------------------------------
(* The whole program: every store the specifications above start from, and
   every operation *)

Init ==
    \/ InitDelete \/ InitScale \/ InitPause \/ InitHealth \/ InitProvider \/ InitNode
    \/ InitRemediate \/ InitConflict \/ InitReadiness \/ InitUpgrade \/ InitOperations
    \/ InitLostUpdate \/ InitRace

Next ==
    \/ NextDelete \/ NextScale \/ NextPause \/ NextHealth \/ NextProvider \/ NextNode
    \/ NextRemediate \/ NextConflict \/ NextReadiness \/ NextUpgrade \/ NextOperations
    \/ NextLostUpdate \/ NextRace

Spec == Init /\ [][Next]_vars

====
